---- MODULE Spec2Model ----
(***************************************************************************)
(* fastgallery: incremental synchronisation of a gallery tree (thumbnail,  *)
(* full-size, original) against a source tree of photos and videos.        *)
(*                                                                         *)
(* A file or directory name is a pair <<base, extension>>, a path is a     *)
(* sequence of names relative to the source root or to the gallery root.   *)
(* A filesystem is a function from the paths that exist to their entries.  *)
(***************************************************************************)
EXTENDS Integers, Sequences, FiniteSets, TLC

VARIABLES
    src,            \* source filesystem
    gal,            \* gallery filesystem
    now,            \* wall clock, stamps every write
    pc,             \* position of main()
    args,           \* command-line flags of the current run
    source,         \* main: source tree (createDirectoryTree + compareDirectoryTrees)
    gallery,        \* main: gallery tree
    newSourceFiles, \* main: countChanges(source)
    dirs,           \* updateMediaFiles: source directories in recursion order
    di,             \* updateMediaFiles: index of the directory being processed
    fi,             \* createMedia: index of the next file of the enqueue loop
    thisDirectoryJobs,  \* createMedia: buffered channel of jobs
    chanClosed,     \* createMedia: close(thisDirectoryJobs) has happened
    wpc,            \* position of each transformationWorker
    wjob,           \* job each worker is transforming
    image,          \* transformImage: the image each worker holds in memory
    wipJobs,        \* global registry of work-in-progress jobs
    wipJobMutex,    \* holder of wipJobMutex
    progressBar,    \* number of Increment() calls of the current run
    sig,            \* position of signalHandler
    runs,           \* number of runs started so far
    env,            \* what the environment may still do: runs, failures, signals
    hist            \* observations of the current run and of the change before it

vars == <<src, gal, now, pc, args, source, gallery, newSourceFiles, dirs, di, fi,
          thisDirectoryJobs, chanClosed, wpc, wjob, image, wipJobs, wipJobMutex,
          progressBar, sig, runs, env, hist>>

-----------------------------------------------------------------------------
(* Bounds of the model *)

MaxFiles == 2       \* media files in the initial source tree
MaxTime == 1        \* last clock value
MaxRuns == 2        \* runs of the program in one behaviour
NumWorkers == 2     \* workers of the pool (config.concurrency)
LiveQueueCap == 1   \* capacity of the job queue where it has to be exceeded

-----------------------------------------------------------------------------
(* Names and configuration (initializeConfig) *)

N(b, e) == <<b, e>>

thumbnailDir == N("_thumbnail", "")
fullsizeDir == N("_fullsize", "")
originalDir == N("_original", "")
imageExtension == "jpg"
videoExtension == "mp4"
htmlFile == N("index", "html")
backIcon == N("back", "png")
folderIcon == N("folder", "png")
playIcon == N("playbutton", "png")
manifestFile == N("manifest", "json")
concurrency == NumWorkers
fullsizeMaxWidth == 1920
fullsizeMaxHeight == 1080
QueueCap == 10000

\* the embedded assets directory
assetDirectoryListing ==
    <<backIcon, N("fastgallery", "js"), folderIcon, playIcon>>

subName == N("sub", "")
linkName == N("link", "")

\* os.ReadDir returns the entries sorted by file name
NameOrder ==
    << fullsizeDir, originalDir, thumbnailDir,
       N("a", "jpg"), N("a", "mp4"), N("album", "jpg"), N("b", "jpg"),
       N("back", "jpg"), N("back", "png"), N("c", "MP4"), N("c", "jpg"),
       N("c", "mp4"), N("fastgallery", "js"), folderIcon, htmlFile, linkName,
       manifestFile,
       N("notes", "txt"), playIcon, subName >>

\* candidate media files of the source tree
SrcCandidates ==
    { <<N("a", "jpg")>>, <<N("a", "mp4")>>, <<N("b", "jpg")>>,
      <<N("back", "png")>>, <<subName, N("a", "jpg")>> }

-----------------------------------------------------------------------------
(* Filesystem primitives *)

DirEntry == [t |-> "dir", m |-> 0]
FileEntry(m) == [t |-> "file", m |-> m]
LinkEntry(m) == [t |-> "link", m |-> m]
\* a directory whose contents cannot be read
LockedEntry == [t |-> "locked", m |-> 0]
\* a symbolic link that resolves to a directory; the paths below it are the
\* entries of that directory, as seen through the link
DirLinkEntry == [t |-> "dirlink", m |-> 0]
\* a symbolic link left over from a source tree that is gone: its target does
\* not exist
StaleLinkEntry == [t |-> "stalelink", m |-> 0]
\* a path that leads through something that is no directory: os.Stat fails
\* with an error other than "does not exist"
BlockedEntry == [t |-> "blocked", m |-> 0]

IsPrefix(p, q) == Len(p) <= Len(q) /\ SubSeq(q, 1, Len(p)) = p
Parent(p) == SubSeq(p, 1, Len(p) - 1)
Last(p) == p[Len(p)]

exists(fs, p) == p \in DOMAIN fs
IsDir(fs, p) == p \in DOMAIN fs /\ fs[p].t \in {"dir", "locked"}
ReadDir(fs, p) == SelectSeq(NameOrder, LAMBDA n : Append(p, n) \in DOMAIN fs)
\* os.ReadDir returns an error
ReadDirFails(fs, p) == p \notin DOMAIN fs \/ fs[p].t \notin {"dir", "dirlink"}

Put(fs, p, e) == (p :> e) @@ fs
Remove(fs, p) == [q \in DOMAIN fs \ {p} |-> fs[q]]
RemoveAll(fs, p) == [q \in {r \in DOMAIN fs : ~IsPrefix(p, r)} |-> fs[q]]
RemoveSet(fs, ps) == [q \in DOMAIN fs \ ps |-> fs[q]]

-----------------------------------------------------------------------------
(* Validation of the arguments *)

\* what os.Stat finds at the root of a tree
RootKind(fs) == IF <<>> \in DOMAIN fs THEN fs[<<>>].t ELSE "none"

\* what os.Stat finds at the gallery path: below a parent that is a file the
\* path cannot even be looked up
GalleryKind(fs, parentKind) ==
    IF <<>> \in DOMAIN fs THEN fs[<<>>].t
    ELSE IF parentKind = "file" THEN "blocked" ELSE "none"

\* os.Stat returns an error that os.IsNotExist does not recognise, and
\* isDirectory calls IsDir() on the nil FileInfo
isDirectoryPanics(kind) == kind = "blocked"

\* os.Stat follows links: a directory, or a link to one
isDirectory(kind) == kind \in {"dir", "locked", "dirlink"}

\* "ok" when both paths are returned, "exit" when exit(1) is called, "panic"
\* when isDirectory panics
validateSourceAndGallery(sourceKind, galleryKind, parentKind) ==
    IF isDirectoryPanics(sourceKind) THEN "panic"
    ELSE IF ~isDirectory(sourceKind) THEN "exit"
    ELSE IF isDirectoryPanics(galleryKind) THEN "panic"
    ELSE IF isDirectory(galleryKind) THEN "ok"
    ELSE IF isDirectoryPanics(parentKind) THEN "panic"
    ELSE IF ~isDirectory(parentKind) THEN "exit"
    ELSE "ok"

-----------------------------------------------------------------------------
(* Classification of names *)

\* strings.ToLower, on the extensions the model uses
ToLower(e) ==
    CASE e = "JPG" -> "jpg" [] e = "Jpeg" -> "jpeg" [] e = "PNG" -> "png"
      [] e = "MP4" -> "mp4" [] e = "MoV" -> "mov" [] e = "TXT" -> "txt"
      [] OTHER -> e
Ext(n) == n[2]

stripExtension(n) == n[1]

isVideoFile(n) ==
    ToLower(Ext(n)) \in {"mp4", "mov", "3gp", "avi", "mts", "m4v", "mpg"}

isImageFile(n) ==
    ToLower(Ext(n)) \in {"jpg", "jpeg", "heic", "png", "gif", "tif", "tiff",
                         "cr2", "raw", "arw"}

\* a faulty isMediaFile: videos are media whatever the flag
isMediaFileWithVideos(n, noVideos) ==
    isImageFile(n) \/ isVideoFile(n)

isMediaFile(n, noVideos) ==
    isImageFile(n) \/ (~noVideos /\ isVideoFile(n))

reservedDirectory(n) == n \in {thumbnailDir, fullsizeDir, originalDir}

\* a faulty reservedFile: the icons are forgotten
reservedFileManifestOnly(n) == n = manifestFile

reservedFile(n) == n \in {backIcon, folderIcon, manifestFile}

-----------------------------------------------------------------------------
(* Tree scanner *)

RECURSIVE dirHasMediafiles(_, _, _)
dirHasMediafiles(fs, directory, noVideos) ==
    IF ReadDirFails(fs, directory) THEN FALSE
    ELSE
      LET list == ReadDir(fs, directory)
      IN  \E i \in DOMAIN list :
              LET entryAbsPath == Append(directory, list[i])
              IN  IF IsDir(fs, entryAbsPath)
                  THEN dirHasMediafiles(fs, entryAbsPath, noVideos)
                  ELSE isMediaFile(list[i], noVideos)

isSymlinkDir(fs, targetPath) == fs[targetPath].t = "dirlink"

\* the entries of a directory createDirectoryTree descends into
SubdirectoryNames(fs, parentDirectory, noVideos) ==
    SelectSeq(ReadDir(fs, parentDirectory), LAMBDA n :
        /\ \/ IsDir(fs, Append(parentDirectory, n))
           \/ isSymlinkDir(fs, Append(parentDirectory, n))
        /\ dirHasMediafiles(fs, Append(parentDirectory, n), noVideos))

\* createDirectoryTree calls exit(1): the contents of a directory it lists
\* cannot be read
RECURSIVE createDirectoryTreeExits(_, _, _)
createDirectoryTreeExits(fs, parentDirectory, noVideos) ==
    IF ~exists(fs, parentDirectory) /\ parentDirectory = <<>>
    THEN FALSE
    ELSE \/ ReadDirFails(fs, parentDirectory)
         \/ LET subs == SubdirectoryNames(fs, parentDirectory, noVideos)
            IN  \E i \in DOMAIN subs :
                    createDirectoryTreeExits(fs, Append(parentDirectory, subs[i]), noVideos)

RootName == N("", "")

RECURSIVE createDirectoryTree(_, _, _)
createDirectoryTree(fs, parentDirectory, noVideos) ==
    IF ~exists(fs, parentDirectory) /\ parentDirectory = <<>>
    THEN [name |-> RootName, relPath |-> <<>>, files |-> <<>>,
          subdirectories |-> <<>>, exists |-> FALSE]
    ELSE
      LET list == ReadDir(fs, parentDirectory)
          subs == SubdirectoryNames(fs, parentDirectory, noVideos)
          fls == SelectSeq(list, LAMBDA n :
                      /\ ~IsDir(fs, Append(parentDirectory, n))
                      /\ ~isSymlinkDir(fs, Append(parentDirectory, n))
                      /\ isMediaFile(n, noVideos))
      IN [name |-> IF parentDirectory = <<>> THEN RootName ELSE Last(parentDirectory),
          relPath |-> parentDirectory,
          files |-> [i \in DOMAIN fls |->
                        [name |-> fls[i],
                         relPath |-> Append(parentDirectory, fls[i]),
                         modTime |-> fs[Append(parentDirectory, fls[i])].m,
                         exists |-> FALSE]],
          subdirectories |-> [i \in DOMAIN subs |->
                        createDirectoryTree(fs, Append(parentDirectory, subs[i]), noVideos)],
          exists |-> FALSE]

-----------------------------------------------------------------------------
(* Reconciler *)

After(t, u) == t > u

\* index of the last file of a reserved gallery subdirectory with the basename, 0 if none
LastMatch(galleryDir, dirName, basename) ==
    LET hs == {h \in DOMAIN galleryDir.subdirectories :
                    galleryDir.subdirectories[h].name = dirName}
    IN  IF hs = {} THEN [h |-> 0, i |-> 0]
        ELSE LET h == CHOOSE x \in hs : TRUE
                 fs == galleryDir.subdirectories[h].files
                 is == {i \in DOMAIN fs : stripExtension(fs[i].name) = basename}
             IN  IF is = {} THEN [h |-> h, i |-> 0]
                 ELSE [h |-> h, i |-> CHOOSE i \in is : \A j \in is : j <= i]

\* a faulty markMatches: the gallery files are left unmarked
markMatchesNothing(subDir, basenames) == subDir

\* the files of a thumbnail, full-size or original subdirectory that share the
\* basename of a source file are marked, whatever their freshness
markMatches(subDir, basenames) ==
    IF reservedDirectory(subDir.name)
    THEN [subDir EXCEPT !.files = [j \in DOMAIN subDir.files |->
                IF stripExtension(subDir.files[j].name) \in basenames
                THEN [subDir.files[j] EXCEPT !.exists = TRUE]
                ELSE subDir.files[j]]]
    ELSE subDir

RECURSIVE compareDirectoryTrees(_, _)
compareDirectoryTrees(sourceDir, galleryDir) ==
    LET basenames == {stripExtension(sourceDir.files[i].name) : i \in DOMAIN sourceDir.files}
        gsubs1 == [h \in DOMAIN galleryDir.subdirectories |->
                        markMatches(galleryDir.subdirectories[h], basenames)]
        upToDate(f) ==
            LET thumbnailFile == LastMatch(galleryDir, thumbnailDir, stripExtension(f.name))
                fullsizeFile == LastMatch(galleryDir, fullsizeDir, stripExtension(f.name))
                originalFile == LastMatch(galleryDir, originalDir, stripExtension(f.name))
            IN  /\ thumbnailFile.i # 0 /\ fullsizeFile.i # 0 /\ originalFile.i # 0
                /\ After(galleryDir.subdirectories[thumbnailFile.h].files[thumbnailFile.i].modTime,
                         f.modTime)
        sfiles1 == [i \in DOMAIN sourceDir.files |->
                        IF upToDate(sourceDir.files[i])
                        THEN [sourceDir.files[i] EXCEPT !.exists = TRUE]
                        ELSE sourceDir.files[i]]
        \* index of the gallery subdirectory a source subdirectory is compared with
        partner(k) ==
            LET ls == {l \in DOMAIN gsubs1 :
                          gsubs1[l].name = sourceDir.subdirectories[k].name}
            IN  IF reservedDirectory(sourceDir.subdirectories[k].name) \/ ls = {}
                THEN 0 ELSE CHOOSE l \in ls : TRUE
        rec(k) == compareDirectoryTrees(sourceDir.subdirectories[k], gsubs1[partner(k)])
        ssubs2 == [k \in DOMAIN sourceDir.subdirectories |->
                        IF partner(k) = 0 THEN sourceDir.subdirectories[k]
                        ELSE rec(k).source]
        gsubs2 == [l \in DOMAIN gsubs1 |->
                        LET ks == {k \in DOMAIN sourceDir.subdirectories : partner(k) = l}
                        IN  IF ks = {} THEN gsubs1[l]
                            ELSE rec(CHOOSE k \in ks : TRUE).gallery]
    IN  [source |-> [sourceDir EXCEPT !.exists = TRUE, !.files = sfiles1,
                                        !.subdirectories = ssubs2],
         gallery |-> [galleryDir EXCEPT !.exists = TRUE, !.subdirectories = gsubs2]]

-----------------------------------------------------------------------------
(* Change counter *)

RECURSIVE SumSeq(_)
SumSeq(s) == IF s = <<>> THEN 0 ELSE s[1] + SumSeq(Tail(s))

\* a faulty countChanges: the subdirectories are not counted
countChangesOfTopDirectory(tree) ==
    Cardinality({i \in DOMAIN tree.files :
                    ~tree.files[i].exists /\ ~reservedFile(tree.files[i].name)})

RECURSIVE countChanges(_)
countChanges(tree) ==
    Cardinality({i \in DOMAIN tree.files :
                    ~tree.files[i].exists /\ ~reservedFile(tree.files[i].name)})
    + SumSeq([k \in DOMAIN tree.subdirectories |-> countChanges(tree.subdirectories[k])])

-----------------------------------------------------------------------------
(* Gallery layout *)

\* a faulty getGalleryDirectoryNames: one thumbnail, full-size and original
\* directory under the gallery root, each mirroring the source tree
getGalleryDirectoryNamesAtRoot(galleryDirectory) ==
    [thumbnail |-> <<thumbnailDir>> \o galleryDirectory,
     fullsize |-> <<fullsizeDir>> \o galleryDirectory,
     original |-> <<originalDir>> \o galleryDirectory]

getGalleryDirectoryNames(galleryDirectory) ==
    [thumbnail |-> Append(galleryDirectory, thumbnailDir),
     fullsize |-> Append(galleryDirectory, fullsizeDir),
     original |-> Append(galleryDirectory, originalDir)]

getGalleryFilenames(sourceFilename) ==
    [thumbnail |-> N(stripExtension(sourceFilename), imageExtension),
     fullsize |-> IF isImageFile(sourceFilename)
                  THEN N(stripExtension(sourceFilename), imageExtension)
                  ELSE N(stripExtension(sourceFilename), videoExtension)]

\* the transformationJob createMedia builds for a file of a source directory
MakeJob(sourceDir, file) ==
    LET d == getGalleryDirectoryNames(sourceDir.relPath)
        f == getGalleryFilenames(file.name)
    IN  [filename |-> file.name,
         sourceFilepath |-> Append(sourceDir.relPath, file.name),
         thumbnailFilepath |-> Append(d.thumbnail, f.thumbnail),
         fullsizeFilepath |-> Append(d.fullsize, f.fullsize),
         originalFilepath |-> Append(d.original, file.name)]

JobPaths(job) == {job.thumbnailFilepath, job.fullsizeFilepath, job.originalFilepath}

-----------------------------------------------------------------------------
(* Directory creation, HTML and assets *)

\* a faulty createDirectory: the directory is made in a dry run too
createDirectoryIgnoringDryRun(fs, destination, dryRun) ==
    IF exists(fs, destination) THEN fs ELSE Put(fs, destination, DirEntry)

createDirectory(fs, destination, dryRun) ==
    IF exists(fs, destination) \/ dryRun THEN fs ELSE Put(fs, destination, DirEntry)

\* os.Mkdir fails, and createDirectory exits, when the parent is missing
createDirectoryFails(fs, destination, dryRun) ==
    /\ ~exists(fs, destination) /\ ~dryRun
    /\ destination # <<>> /\ ~IsDir(fs, Parent(destination))

hasDirectoryChanged(sourceDir, galleryRoot, cleanUpFlag, fs) ==
    \/ \E i \in DOMAIN sourceDir.files : ~sourceDir.files[i].exists
    \/ \E k \in DOMAIN sourceDir.subdirectories : ~sourceDir.subdirectories[k].exists
    \/ /\ cleanUpFlag
       /\ \/ \E i \in DOMAIN galleryRoot.files :
                 /\ ~reservedFile(galleryRoot.files[i].name)
                 /\ ~galleryRoot.files[i].exists
          \/ \E k \in DOMAIN galleryRoot.subdirectories :
                 ~galleryRoot.subdirectories[k].exists
    \/ ~exists(fs, Append(sourceDir.relPath, htmlFile))

RECURSIVE findMissingHTMLFiles(_, _)
findMissingHTMLFiles(galleryDir, fs) ==
    \/ ~exists(fs, Append(galleryDir.relPath, htmlFile))
    \/ \E k \in DOMAIN galleryDir.subdirectories :
          /\ ~reservedDirectory(galleryDir.subdirectories[k].name)
          /\ findMissingHTMLFiles(galleryDir.subdirectories[k], fs)

\* the directories of a tree in the order the recursions of main visit them
RECURSIVE Preorder(_)
RECURSIVE ConcatAll(_)
ConcatAll(ss) == IF ss = <<>> THEN <<>> ELSE ss[1] \o ConcatAll(Tail(ss))
Preorder(tree) ==
    <<tree>> \o ConcatAll([k \in DOMAIN tree.subdirectories |->
                               Preorder(tree.subdirectories[k])])

RECURSIVE PutAll(_, _, _)
PutAll(fs, ps, e) ==
    IF ps = <<>> THEN fs ELSE PutAll(Put(fs, ps[1], e), Tail(ps), e)

copyRootAssets(fs, dryRun, t) ==
    IF dryRun THEN fs
    ELSE PutAll(fs,
                [i \in DOMAIN SelectSeq(assetDirectoryListing, LAMBDA n :
                        ToLower(Ext(n)) \in {"js", "css", "png"} /\ n # playIcon)
                 |-> <<SelectSeq(assetDirectoryListing, LAMBDA n :
                        ToLower(Ext(n)) \in {"js", "css", "png"} /\ n # playIcon)[i]>>],
                FileEntry(t))

createPWAManifest(fs, dryRun, t) ==
    IF dryRun THEN fs ELSE Put(fs, <<manifestFile>>, FileEntry(t))

\* directories of the source tree whose HTML file updateHTMLFiles rewrites
HTMLTargets(sourceTree, galleryRoot, cleanUpFlag, fs) ==
    LET ds == Preorder(sourceTree)
    IN  {ds[i].relPath : i \in {j \in DOMAIN ds :
              hasDirectoryChanged(ds[j], galleryRoot, cleanUpFlag, fs)}}

updateHTMLFiles(sourceTree, galleryRoot, dryRun, cleanUpFlag, fs, t) ==
    IF dryRun THEN fs
    ELSE LET targets == HTMLTargets(sourceTree, galleryRoot, cleanUpFlag, fs)
         IN  [p \in DOMAIN fs \cup {Append(d, htmlFile) : d \in targets} |->
                 IF \E d \in targets : p = Append(d, htmlFile)
                 THEN FileEntry(t) ELSE fs[p]]

\* os.Create fails, and createHTML exits, when the directory is missing
updateHTMLFilesFails(sourceTree, galleryRoot, dryRun, cleanUpFlag, fs) ==
    /\ ~dryRun
    /\ \E d \in HTMLTargets(sourceTree, galleryRoot, cleanUpFlag, fs) : ~IsDir(fs, d)

-----------------------------------------------------------------------------
(* Cleanup *)

\* a faulty cleanDirectory: asset files are not spared
cleanDirectoryAlsoAssets(galleryDir) ==
    {Append(galleryDir.relPath, galleryDir.files[i].name) :
        i \in {j \in DOMAIN galleryDir.files : ~galleryDir.files[j].exists}}
    \cup
    {Append(galleryDir.relPath, galleryDir.subdirectories[k].name) :
        k \in {l \in DOMAIN galleryDir.subdirectories :
                  /\ ~reservedDirectory(galleryDir.subdirectories[l].name)
                  /\ ~galleryDir.subdirectories[l].exists}}

\* the paths cleanDirectory hands to os.RemoveAll
cleanDirectory(galleryDir) ==
    {Append(galleryDir.relPath, galleryDir.files[i].name) :
        i \in {j \in DOMAIN galleryDir.files :
                  /\ ~galleryDir.files[j].exists
                  /\ ~reservedFile(galleryDir.files[j].name)}}
    \cup
    {Append(galleryDir.relPath, galleryDir.subdirectories[k].name) :
        k \in {l \in DOMAIN galleryDir.subdirectories :
                  /\ ~reservedDirectory(galleryDir.subdirectories[l].name)
                  /\ ~galleryDir.subdirectories[l].exists}}

RECURSIVE cleanUpPaths(_)
cleanUpPaths(galleryDir) ==
    cleanDirectory(galleryDir)
    \cup UNION {cleanUpPaths(galleryDir.subdirectories[k]) :
                    k \in DOMAIN galleryDir.subdirectories}

cleanUp(galleryTree, dryRun, fs) ==
    IF dryRun THEN fs
    ELSE LET stale == cleanUpPaths(galleryTree)
         IN  [q \in {r \in DOMAIN fs : \A p \in stale : ~IsPrefix(p, r)} |-> fs[q]]

-----------------------------------------------------------------------------
(* State of a process that is not running *)

\* the pool has config.concurrency workers
Workers == DOMAIN wpc

EmptyFS == [p \in {} |-> DirEntry]
NoTree == [name |-> RootName, relPath |-> <<>>, files |-> <<>>,
           subdirectories |-> <<>>, exists |-> FALSE]
NoJob == [filename |-> RootName, sourceFilepath |-> <<>>, thumbnailFilepath |-> <<>>,
          fullsizeFilepath |-> <<>>, originalFilepath |-> <<>>]
NoArgs == [DryRun |-> FALSE, CleanUp |-> FALSE, NoVideos |-> FALSE]
NoChange == [kind |-> "none", path |-> <<>>, later |-> FALSE, synced |-> {}]
NoWip == [k \in {} |-> NoJob]
\* no image is loaded
NoImage == [width |-> <<0, 1>>, height |-> <<0, 1>>]
NoCalls == [c \in {} |-> 0]

\* the source filesystem holding the media files fs, all last modified at time 0
SourceFS(files) ==
    [p \in {<<>>} \cup files \cup {Parent(f) : f \in files} |->
        IF p \in files THEN FileEntry(0) ELSE DirEntry]

\* a run of both scanners and of the reconciler
Reconcile(sfs, gfs, noVideos) ==
    compareDirectoryTrees(createDirectoryTree(sfs, <<>>, noVideos),
                          createDirectoryTree(gfs, <<>>, noVideos))

\* nothing to rebuild and nothing stale
Synchronized(sfs, gfs, noVideos) ==
    LET r == Reconcile(sfs, gfs, noVideos)
        ds == Preorder(r.source)
    IN  /\ \A i \in DOMAIN ds : \A j \in DOMAIN ds[i].files : ds[i].files[j].exists
        /\ cleanUpPaths(r.gallery) = {}

\* the source trees of at most MaxFiles files among the candidates
Sources(candidates) ==
    {SourceFS(files) : files \in {fs \in SUBSET candidates : Cardinality(fs) <= MaxFiles}}

\* the pixel dimensions of the pictures of the source tree: landscape and
\* portrait, larger and smaller than the full-size bounds, and the bounds' own
\* proportions
Pictures ==
    {[width |-> 4000, height |-> 3000], [width |-> 3000, height |-> 4000],
     [width |-> 3840, height |-> 2160], [width |-> 5000, height |-> 1],
     [width |-> 1, height |-> 5000], [width |-> 1, height |-> 1],
     [width |-> 640, height |-> 480], [width |-> 1921, height |-> 1080],
     [width |-> 1920, height |-> 1081]}

OnePicture == {[width |-> 4000, height |-> 3000]}

\* the gallery does not exist yet, its parent directory does
NewGallery == {[gal |-> EmptyFS, parent |-> "dir"]}

InitWith(sources, targets, images, workers, flags, maxRuns, maxFails, maxSignals, queueCap) ==
    /\ src \in sources
    /\ \E target \in targets, picture \in images :
          /\ env = [maxRuns |-> maxRuns, maxFails |-> maxFails, maxSignals |-> maxSignals,
                    fails |-> 0, signals |-> 0, flags |-> flags, queueCap |-> queueCap,
                    galleryParent |-> target.parent, image |-> picture]
          /\ gal = target.gal
    /\ now = 0
    /\ pc = "idle"
    /\ args = NoArgs
    /\ source = NoTree
    /\ gallery = NoTree
    /\ newSourceFiles = 0
    /\ dirs = <<>>
    /\ di = 0
    /\ fi = 0
    /\ thisDirectoryJobs = <<>>
    /\ chanClosed = FALSE
    /\ wpc = [w \in 1 .. workers |-> "none"]
    /\ wjob = [w \in 1 .. workers |-> NoJob]
    /\ image = [w \in 1 .. workers |-> NoImage]
    /\ wipJobs = NoWip
    /\ wipJobMutex = "free"
    /\ progressBar = 0
    /\ sig = "off"
    /\ runs = 0
    /\ hist = [status |-> "none", jobs |-> {}, failed |-> {}, processed |-> NoCalls,
               gal0 |-> EmptyFS, change |-> NoChange,
               prev |-> [clean |-> FALSE, noVideos |-> FALSE, failed |-> {}, registered |-> {}]]

AllFlags == [DryRun : BOOLEAN, CleanUp : BOOLEAN, NoVideos : BOOLEAN]

\* a clash of basenames in one directory
ClashCandidates == { <<N("a", "jpg")>>, <<N("a", "mp4")>> }

\* one worker: MaxRuns runs with at most one failing transformation, or, over a
\* smaller source tree, MaxRuns runs with a failure and an interrupt
Init ==
    \/ InitWith(Sources(SrcCandidates), NewGallery, OnePicture, 1, AllFlags, MaxRuns, 1, 0, QueueCap)
    \/ InitWith(Sources(ClashCandidates), NewGallery, OnePicture, 1, AllFlags, MaxRuns, 1, 1, QueueCap)

\* the whole pool: one run with failures and an interrupt
InitPool == InitWith(Sources(SrcCandidates), NewGallery, OnePicture, concurrency, AllFlags, 1, 2, 1, QueueCap)

\* the process ends: its memory is gone, the filesystems stay
Exit(status) ==
    /\ pc' = "idle"
    /\ args' = NoArgs
    /\ progressBar' = 0
    /\ source' = NoTree
    /\ gallery' = NoTree
    /\ newSourceFiles' = 0
    /\ dirs' = <<>>
    /\ di' = 0
    /\ fi' = 0
    /\ thisDirectoryJobs' = <<>>
    /\ chanClosed' = FALSE
    /\ wpc' = [w \in Workers |-> "none"]
    /\ wjob' = [w \in Workers |-> NoJob]
    /\ image' = [w \in Workers |-> NoImage]
    /\ wipJobs' = NoWip
    /\ wipJobMutex' = "free"
    /\ sig' = "off"
    /\ hist' = [hist EXCEPT
                  !.status = status,
                  !.jobs = {}, !.failed = {}, !.processed = NoCalls, !.gal0 = EmptyFS,
                  !.change = NoChange,
                  !.prev = [clean |-> /\ status = "done" /\ ~args.DryRun /\ args.CleanUp
                                       /\ hist.failed = {},
                            noVideos |-> args.NoVideos,
                            failed |-> hist.failed,
                            registered |-> IF status = "interrupted" THEN DOMAIN wipJobs
                                           ELSE {}]]

-----------------------------------------------------------------------------
(* The environment between two runs *)

SourceFiles == {p \in DOMAIN src : p # <<>> /\ src[p].t = "file"}

Tick ==
    /\ pc = "idle"
    /\ now < MaxTime
    /\ now' = now + 1
    /\ UNCHANGED <<src, gal, pc, args, source, gallery, newSourceFiles, dirs, di, fi,
                   thisDirectoryJobs, chanClosed, wpc, wjob, image, wipJobs, wipJobMutex,
                   progressBar, sig, runs, env, hist>>

\* os.Chtimes(file, time.Now(), time.Now())
Touch(p) ==
    /\ pc = "idle" /\ runs >= 1 /\ hist.change.kind = "none"
    /\ p \in SourceFiles
    /\ src' = [src EXCEPT ![p] = FileEntry(now)]
    /\ hist' = [hist EXCEPT !.change =
                  [kind |-> "touch", path |-> p, later |-> now > src[p].m,
                   synced |-> {nv \in BOOLEAN : Synchronized(src, gal, nv)}]]
    /\ UNCHANGED <<gal, now, pc, args, source, gallery, newSourceFiles, dirs, di, fi,
                   thisDirectoryJobs, chanClosed, wpc, wjob, image, wipJobs, wipJobMutex,
                   progressBar, sig, runs, env>>

\* os.RemoveAll(file)
RemoveSource(p) ==
    /\ pc = "idle" /\ runs >= 1 /\ hist.change.kind = "none"
    /\ p \in SourceFiles
    /\ src' = Remove(src, p)
    /\ hist' = [hist EXCEPT !.change =
                  [kind |-> "remove", path |-> p, later |-> FALSE,
                   synced |-> {nv \in BOOLEAN : Synchronized(src, gal, nv)}]]
    /\ UNCHANGED <<gal, now, pc, args, source, gallery, newSourceFiles, dirs, di, fi,
                   thisDirectoryJobs, chanClosed, wpc, wjob, image, wipJobs, wipJobMutex,
                   progressBar, sig, runs, env>>

-----------------------------------------------------------------------------
(* main *)

\* the outcome of validateSourceAndGallery on the two paths of the command line
Validation ==
    validateSourceAndGallery(RootKind(src), GalleryKind(gal, env.galleryParent),
                             env.galleryParent)

\* argument parsing and validation, both scans, reconciliation and the count of
\* pending files
StartRun(dryRun, cleanUpFlag, noVideos) ==
    /\ pc = "idle"
    /\ runs < env.maxRuns
    /\ [DryRun |-> dryRun, CleanUp |-> cleanUpFlag, NoVideos |-> noVideos] \in env.flags
    /\ runs' = runs + 1
    /\ IF Validation # "ok"
       THEN /\ Exit(IF Validation = "exit" THEN "invalid" ELSE "panic")
            /\ UNCHANGED <<src, gal, now, env>>
       ELSE IF \/ createDirectoryTreeExits(src, <<>>, noVideos)
               \/ createDirectoryTreeExits(gal, <<>>, noVideos)
       THEN /\ Exit("fatal")
            /\ UNCHANGED <<src, gal, now, env>>
       ELSE /\ args' = [DryRun |-> dryRun, CleanUp |-> cleanUpFlag, NoVideos |-> noVideos]
            /\ LET r == Reconcile(src, gal, noVideos)
               IN  /\ source' = r.source
                   /\ gallery' = r.gallery
                   /\ newSourceFiles' = countChanges(r.source)
            /\ progressBar' = 0
            /\ hist' = [hist EXCEPT !.status = "none", !.jobs = {}, !.failed = {},
                                      !.processed = NoCalls, !.gal0 = gal]
            /\ pc' = "compared"
            /\ UNCHANGED <<src, gal, now, dirs, di, fi, thisDirectoryJobs, chanClosed,
                           wpc, wjob, image, wipJobs, wipJobMutex, sig, env>>

\* gallery root, assets, manifest and signal handler, when there is work
\* a faulty start of the media update: the gallery root is not created
PrepareWithoutRoot ==
    /\ pc = "compared"
    /\ IF newSourceFiles > 0
       THEN /\ gal' = createPWAManifest(copyRootAssets(gal, TRUE, now), TRUE, now)
            /\ sig' = "waiting"
            /\ dirs' = Preorder(source)
            /\ di' = 1
            /\ pc' = "updateMedia"
       ELSE /\ pc' = "html"
            /\ UNCHANGED <<gal, sig, dirs, di>>
    /\ UNCHANGED <<src, now, args, source, gallery, newSourceFiles, fi, thisDirectoryJobs,
                   chanClosed, wpc, wjob, image, wipJobs, wipJobMutex, progressBar, runs, env, hist>>

Prepare ==
    /\ pc = "compared"
    /\ IF newSourceFiles > 0
       THEN /\ gal' = createPWAManifest(
                        copyRootAssets(
                          createDirectory(gal, <<>>, args.DryRun), args.DryRun, now),
                        args.DryRun, now)
            /\ sig' = "waiting"
            /\ dirs' = Preorder(source)
            /\ di' = 1
            /\ pc' = "updateMedia"
       ELSE /\ pc' = "html"
            /\ UNCHANGED <<gal, sig, dirs, di>>
    /\ UNCHANGED <<src, now, args, source, gallery, newSourceFiles, fi, thisDirectoryJobs,
                   chanClosed, wpc, wjob, image, wipJobs, wipJobMutex, progressBar, runs, env, hist>>

\* updateMediaFiles reaches the next directory: the directory itself is created,
\* and createMedia, when the directory has changed, creates the reserved
\* subdirectories and starts the worker pool
EnterDirectory ==
    /\ pc = "updateMedia"
    /\ di <= Len(dirs)
    /\ LET d == dirs[di]
           names == getGalleryDirectoryNames(d.relPath)
           g1 == IF di = 1 THEN gal ELSE createDirectory(gal, d.relPath, args.DryRun)
           g2 == createDirectory(g1, names.thumbnail, args.DryRun)
           g3 == createDirectory(g2, names.fullsize, args.DryRun)
           g4 == createDirectory(g3, names.original, args.DryRun)
       IN  IF di > 1 /\ createDirectoryFails(gal, d.relPath, args.DryRun)
           THEN /\ Exit("fatal")
                /\ UNCHANGED <<src, gal, now, runs, env>>
           ELSE IF hasDirectoryChanged(d, gallery, args.CleanUp, g1)
           THEN IF createDirectoryFails(g1, names.thumbnail, args.DryRun)
                THEN /\ gal' = g1
                     /\ Exit("fatal")
                     /\ UNCHANGED <<src, now, runs, env>>
                ELSE /\ gal' = g4
                     /\ wpc' = [w \in Workers |-> "recv"]
                     /\ thisDirectoryJobs' = <<>>
                     /\ chanClosed' = FALSE
                     /\ fi' = 1
                     /\ pc' = "enqueue"
                     /\ UNCHANGED <<src, now, args, source, gallery, newSourceFiles, dirs,
                                    di, wjob, image, wipJobs, wipJobMutex, progressBar, sig, runs,
                                    env, hist>>
           ELSE /\ gal' = g1
                /\ di' = di + 1
                /\ UNCHANGED <<src, now, pc, args, source, gallery, newSourceFiles, dirs,
                               fi, thisDirectoryJobs, chanClosed, wpc, wjob, image, wipJobs,
                               wipJobMutex, progressBar, sig, runs, env, hist>>

\* one iteration of the loop over source.files
Enqueue ==
    /\ pc = "enqueue"
    /\ fi <= Len(dirs[di].files)
    /\ LET file == dirs[di].files[fi]
           thisJob == MakeJob(dirs[di], file)
       IN  IF ~file.exists /\ ~args.DryRun
           THEN /\ Len(thisDirectoryJobs) < env.queueCap
                /\ ~chanClosed
                /\ thisDirectoryJobs' = Append(thisDirectoryJobs, thisJob)
                /\ hist' = [hist EXCEPT !.jobs = @ \cup {thisJob}]
           ELSE UNCHANGED <<thisDirectoryJobs, hist>>
    /\ fi' = fi + 1
    /\ UNCHANGED <<src, gal, now, pc, args, source, gallery, newSourceFiles, dirs, di,
                   chanClosed, wpc, wjob, image, wipJobs, wipJobMutex, progressBar, sig, runs, env>>

CloseQueue ==
    /\ pc = "enqueue"
    /\ fi > Len(dirs[di].files)
    /\ chanClosed' = TRUE
    /\ pc' = "wait"
    /\ UNCHANGED <<src, gal, now, args, source, gallery, newSourceFiles, dirs, di, fi,
                   thisDirectoryJobs, wpc, wjob, image, wipJobs, wipJobMutex, progressBar, sig,
                   runs, env, hist>>

\* a faulty end of createMedia: it returns without waiting for the pool
ReturnWithoutWaiting ==
    /\ pc = "wait"
    /\ wpc' = [w \in Workers |-> "none"]
    /\ di' = di + 1
    /\ pc' = "updateMedia"
    /\ UNCHANGED <<src, gal, now, args, source, gallery, newSourceFiles, dirs, fi,
                   thisDirectoryJobs, chanClosed, wjob, image, wipJobs, wipJobMutex, progressBar,
                   sig, runs, env, hist>>

\* thisDirectoryWG.Wait() returns, createMedia returns
WaitWorkers ==
    /\ pc = "wait"
    /\ \A w \in Workers : wpc[w] = "done"
    /\ wpc' = [w \in Workers |-> "none"]
    /\ di' = di + 1
    /\ pc' = "updateMedia"
    /\ UNCHANGED <<src, gal, now, args, source, gallery, newSourceFiles, dirs, fi,
                   thisDirectoryJobs, chanClosed, wjob, image, wipJobs, wipJobMutex, progressBar,
                   sig, runs, env, hist>>

\* updateMediaFiles has returned
MediaUpdated ==
    /\ pc = "updateMedia"
    /\ di > Len(dirs)
    /\ pc' = "html"
    /\ UNCHANGED <<src, gal, now, args, source, gallery, newSourceFiles, dirs, di, fi,
                   thisDirectoryJobs, chanClosed, wpc, wjob, image, wipJobs, wipJobMutex,
                   progressBar, sig, runs, env, hist>>

UpdateHTML ==
    /\ pc = "html"
    /\ LET staleGalleryFiles == countChanges(gallery)
           missingHTMLFiles == findMissingHTMLFiles(gallery, gal)
       IN  IF newSourceFiles > 0 \/ staleGalleryFiles > 0 \/ missingHTMLFiles
           THEN IF updateHTMLFilesFails(source, gallery, args.DryRun, args.CleanUp, gal)
                THEN /\ Exit("fatal")
                     /\ UNCHANGED gal
                ELSE /\ gal' = updateHTMLFiles(source, gallery, args.DryRun,
                                               args.CleanUp, gal, now)
                     /\ pc' = "cleanup"
                     /\ UNCHANGED <<args, progressBar, source, gallery, newSourceFiles,
                                    dirs, di, fi, thisDirectoryJobs, chanClosed, wpc, wjob, image,
                                    wipJobs, wipJobMutex, sig, hist>>
           ELSE /\ pc' = "cleanup"
                /\ UNCHANGED <<gal, args, progressBar, source, gallery, newSourceFiles,
                               dirs, di, fi, thisDirectoryJobs, chanClosed, wpc, wjob, image,
                               wipJobs, wipJobMutex, sig, hist>>
    /\ UNCHANGED <<src, now, runs, env>>

\* a faulty end of main: the cleanup runs whether or not it was asked for
CleanUpAlwaysAndReturn ==
    /\ pc = "cleanup"
    /\ gal' = cleanUp(gallery, args.DryRun, gal)
    /\ Exit("done")
    /\ UNCHANGED <<src, now, runs, env>>

\* the optional cleanup, then main returns
CleanUpAndReturn ==
    /\ pc = "cleanup"
    /\ gal' = IF args.CleanUp THEN cleanUp(gallery, args.DryRun, gal) ELSE gal
    /\ Exit("done")
    /\ UNCHANGED <<src, now, runs, env>>

-----------------------------------------------------------------------------
(* transformationWorker and transformFile *)

Running == pc # "idle"

\* one more call transformFile(job) of worker w has returned
Returned(calls, w, job) ==
    LET c == <<w, job.sourceFilepath>>
    IN  (c :> (IF c \in DOMAIN calls THEN calls[c] + 1 ELSE 1)) @@ calls

\* everything a step of a worker or of the signal handler leaves alone in main
mainVars == <<src, now, pc, args, source, gallery, newSourceFiles, dirs, di, fi,
              chanClosed, runs, env>>

\* a faulty channel: a job that is received stays in the channel
ReceiveWithoutRemoving(w) ==
    /\ Running
    /\ wpc[w] = "recv"
    /\ thisDirectoryJobs # <<>>
    /\ wjob' = [wjob EXCEPT ![w] = Head(thisDirectoryJobs)]
    /\ wpc' = [wpc EXCEPT ![w] = "register"]
    /\ UNCHANGED <<mainVars, gal, thisDirectoryJobs, image, wipJobs, wipJobMutex,
                   progressBar, sig, hist>>

\* for thisJob := range thisDirectoryJobs
Dequeue(w) ==
    /\ Running
    /\ wpc[w] = "recv"
    /\ thisDirectoryJobs # <<>>
    /\ wjob' = [wjob EXCEPT ![w] = Head(thisDirectoryJobs)]
    /\ UNCHANGED image
    /\ thisDirectoryJobs' = Tail(thisDirectoryJobs)
    /\ wpc' = [wpc EXCEPT ![w] = "register"]
    /\ UNCHANGED <<mainVars, gal, wipJobs, wipJobMutex, progressBar, sig, hist>>

\* a faulty end of the range loop: the worker stops at the close of the channel,
\* whatever is left in it
WorkerStopsAtClose(w) ==
    /\ Running
    /\ wpc[w] = "recv"
    /\ chanClosed
    /\ wpc' = [wpc EXCEPT ![w] = "done"]
    /\ UNCHANGED <<mainVars, gal, thisDirectoryJobs, wjob, image, wipJobs, wipJobMutex,
                   progressBar, sig, hist>>

\* the range loop ends on the closed and drained channel; wg.Done()
WorkerDone(w) ==
    /\ Running
    /\ wpc[w] = "recv"
    /\ thisDirectoryJobs = <<>>
    /\ chanClosed
    /\ wpc' = [wpc EXCEPT ![w] = "done"]
    /\ UNCHANGED <<mainVars, gal, thisDirectoryJobs, wjob, image, wipJobs, wipJobMutex,
                   progressBar, sig, hist>>

\* a faulty transformFile: the transformation starts without an entry in wipJobs
StartUnregistered(w) ==
    /\ Running
    /\ wpc[w] = "register"
    /\ wipJobMutex = "free"
    /\ wpc' = [wpc EXCEPT ![w] = "fullsize"]
    /\ UNCHANGED <<mainVars, gal, thisDirectoryJobs, wjob, image, wipJobs, wipJobMutex,
                   progressBar, sig, hist>>

\* a faulty transformFile: the mutex is kept through the transformation
RegisterKeepingLock(w) ==
    /\ Running
    /\ wpc[w] = "register"
    /\ wipJobMutex = "free"
    /\ wipJobs' = (wjob[w].sourceFilepath :> wjob[w]) @@ wipJobs
    /\ wipJobMutex' = "worker"
    /\ wpc' = [wpc EXCEPT ![w] = "fullsize"]
    /\ UNCHANGED <<mainVars, gal, thisDirectoryJobs, wjob, image, progressBar, sig, hist>>

\* a faulty Register: the registry is written without wipJobMutex
RegisterWithoutLock(w) ==
    /\ Running
    /\ wpc[w] = "register"
    /\ wipJobs' = (wjob[w].sourceFilepath :> wjob[w]) @@ wipJobs
    /\ wpc' = [wpc EXCEPT ![w] = "fullsize"]
    /\ UNCHANGED <<mainVars, gal, thisDirectoryJobs, wjob, image, wipJobMutex, progressBar, sig,
                   hist>>

\* wipJobMutex.Lock(); wipJobs[thisJob.sourceFilepath] = thisJob; wipJobMutex.Unlock()
Register(w) ==
    /\ Running
    /\ wpc[w] = "register"
    /\ wipJobMutex = "free"
    /\ wipJobs' = (wjob[w].sourceFilepath :> wjob[w]) @@ wipJobs
    /\ wpc' = [wpc EXCEPT ![w] = "fullsize"]
    /\ UNCHANGED <<mainVars, gal, thisDirectoryJobs, wjob, image, wipJobMutex, progressBar, sig,
                   hist>>

\* exact fractions <<numerator, denominator>> in lowest terms, for the float64
\* arithmetic of the scale factor
RECURSIVE GCD(_, _)
GCD(a, b) == IF b = 0 THEN a ELSE GCD(b, a % b)
Frac(n, d) == <<n \div GCD(n, d), d \div GCD(n, d)>>
FracTimes(x, k) == Frac(x[1] * k, x[2])
FracGreater(x, k) == x[1] > k * x[2]

\* a faulty scale factor: the width alone decides
scaleToWidth(width, height) == Frac(fullsizeMaxWidth, width)

\* the scaling factor used to make the image smaller
fullsizeScale(width, height) ==
    LET scale == Frac(fullsizeMaxWidth, width)
    IN  IF FracGreater(FracTimes(scale, height), fullsizeMaxHeight)
        THEN Frac(fullsizeMaxHeight, height)
        ELSE scale

\* image.Resize(scale, vips.KernelAuto): one factor for both dimensions
Resize(picture, scale) ==
    [width |-> FracTimes(scale, picture.width),
     height |-> FracTimes(scale, picture.height)]

\* transformImage loads, resizes and writes the full-size rendition;
\* transformVideo has ffmpeg write it
WriteFullsize(w) ==
    /\ Running
    /\ wpc[w] = "fullsize"
    /\ gal' = Put(gal, wjob[w].fullsizeFilepath, FileEntry(now))
    /\ image' = IF isImageFile(wjob[w].filename)
                THEN [image EXCEPT ![w] =
                        Resize(env.image,
                               fullsizeScale(env.image.width, env.image.height))]
                ELSE image
    /\ wpc' = [wpc EXCEPT ![w] = "thumbnail"]
    /\ UNCHANGED <<mainVars, thisDirectoryJobs, wjob, wipJobs, wipJobMutex, progressBar,
                   sig, hist>>

\* transformImage writes the thumbnail; transformVideo has ffmpeg write the frame
WriteThumbnail(w) ==
    /\ Running
    /\ wpc[w] = "thumbnail"
    /\ gal' = Put(gal, wjob[w].thumbnailFilepath, FileEntry(now))
    /\ wpc' = [wpc EXCEPT ![w] = IF isImageFile(wjob[w].filename)
                                  THEN "original" ELSE "overlay"]
    /\ image' = [image EXCEPT ![w] = NoImage]
    /\ UNCHANGED <<mainVars, thisDirectoryJobs, wjob, wipJobs, wipJobMutex, progressBar,
                   sig, hist>>

\* transformVideo writes the thumbnail again, with the play button on it
WriteOverlay(w) ==
    /\ Running
    /\ wpc[w] = "overlay"
    /\ gal' = Put(gal, wjob[w].thumbnailFilepath, FileEntry(now))
    /\ wpc' = [wpc EXCEPT ![w] = "original"]
    /\ UNCHANGED <<mainVars, thisDirectoryJobs, wjob, image, wipJobs, wipJobMutex, progressBar,
                   sig, hist>>

\* the source file a link in an _original directory points to
LinkTarget(destination) ==
    Append(SubSeq(destination, 1, Len(destination) - 2), Last(destination))

\* os.Stat follows a link and fails on one whose target is gone
Stat(gfs, sfs, p) ==
    /\ p \in DOMAIN gfs
    /\ gfs[p].t # "stalelink"
    /\ gfs[p].t = "link" => LinkTarget(p) \in DOMAIN sfs

symlinkFile(gfs, sfs, destination, t) ==
    LET g1 == IF Stat(gfs, sfs, destination) THEN Remove(gfs, destination) ELSE gfs
    IN  IF destination \in DOMAIN g1
        THEN [err |-> TRUE, fs |-> g1]
        ELSE [err |-> FALSE, fs |-> Put(g1, destination, LinkEntry(t))]

\* createOriginal returns nil
CreateOriginal(w) ==
    /\ Running
    /\ wpc[w] = "original"
    /\ LET r == symlinkFile(gal, src, wjob[w].originalFilepath, now)
       IN  /\ gal' = r.fs
           /\ wpc' = [wpc EXCEPT ![w] = IF r.err THEN "failed" ELSE "increment"]
           /\ hist' = IF r.err
                      THEN [hist EXCEPT !.failed = @ \cup {wjob[w].sourceFilepath}]
                      ELSE hist
    /\ UNCHANGED <<mainVars, thisDirectoryJobs, wjob, image, wipJobs, wipJobMutex, progressBar,
                   sig>>

\* transformImage, transformVideo or createOriginal returns an error
TransformFails(w) ==
    /\ Running
    /\ wpc[w] \in {"fullsize", "thumbnail", "overlay", "original"}
    /\ env.fails < env.maxFails
    /\ env' = [env EXCEPT !.fails = @ + 1]
    /\ wpc' = [wpc EXCEPT ![w] = "failed"]
    /\ hist' = [hist EXCEPT !.failed = @ \cup {wjob[w].sourceFilepath}]
    /\ image' = [image EXCEPT ![w] = NoImage]
    /\ UNCHANGED <<src, now, pc, args, source, gallery, newSourceFiles, dirs, di, fi,
                   chanClosed, runs, gal, thisDirectoryJobs, wjob, wipJobs, wipJobMutex,
                   progressBar, sig>>

\* the paths cleanWipFiles removes for a key of the registry
WipPaths(sourceFilepath) ==
    IF sourceFilepath \in DOMAIN wipJobs THEN JobPaths(wipJobs[sourceFilepath]) ELSE {}

\* a faulty cleanWipFiles: the files go, the entry of the registry stays
cleanWipFilesKeepingEntry(w) ==
    /\ Running
    /\ wpc[w] = "failed"
    /\ wipJobMutex = "free"
    /\ gal' = RemoveSet(gal, WipPaths(wjob[w].sourceFilepath))
    /\ wpc' = [wpc EXCEPT ![w] = "failedIncrement"]
    /\ UNCHANGED <<mainVars, thisDirectoryJobs, wjob, image, wipJobs, wipJobMutex,
                   progressBar, sig, hist>>

cleanWipFiles(w) ==
    /\ Running
    /\ wpc[w] = "failed"
    /\ wipJobMutex = "free"
    /\ gal' = RemoveSet(gal, WipPaths(wjob[w].sourceFilepath))
    /\ wipJobs' = [k \in DOMAIN wipJobs \ {wjob[w].sourceFilepath} |-> wipJobs[k]]
    /\ wpc' = [wpc EXCEPT ![w] = "failedIncrement"]
    /\ UNCHANGED <<mainVars, thisDirectoryJobs, wjob, image, wipJobMutex, progressBar, sig, hist>>

\* a faulty failure path: transformFile returns without the increment
ReturnFailedSilently(w) ==
    /\ Running
    /\ wpc[w] = "failedIncrement"
    /\ wpc' = [wpc EXCEPT ![w] = "recv"]
    /\ wjob' = [wjob EXCEPT ![w] = NoJob]
    /\ hist' = [hist EXCEPT !.processed = Returned(@, w, wjob[w])]
    /\ UNCHANGED <<mainVars, gal, thisDirectoryJobs, image, wipJobs, wipJobMutex,
                   progressBar, sig>>

\* progressBar.Increment() and return, on a failure path
IncrementFailed(w) ==
    /\ Running
    /\ wpc[w] = "failedIncrement"
    /\ progressBar' = progressBar + 1
    /\ wpc' = [wpc EXCEPT ![w] = "recv"]
    /\ wjob' = [wjob EXCEPT ![w] = NoJob]
    /\ UNCHANGED image
    /\ hist' = [hist EXCEPT !.processed = Returned(@, w, wjob[w])]
    /\ UNCHANGED <<mainVars, gal, thisDirectoryJobs, wipJobs, wipJobMutex, sig>>

\* progressBar.Increment() after createOriginal
Increment(w) ==
    /\ Running
    /\ wpc[w] = "increment"
    /\ progressBar' = progressBar + 1
    /\ wpc' = [wpc EXCEPT ![w] = "deregister"]
    /\ UNCHANGED <<mainVars, gal, thisDirectoryJobs, wjob, image, wipJobs, wipJobMutex, sig, hist>>

\* wipJobMutex.Lock(); delete(wipJobs, thisJob.sourceFilepath); wipJobMutex.Unlock()
Deregister(w) ==
    /\ Running
    /\ wpc[w] = "deregister"
    /\ wipJobMutex = "free"
    /\ wipJobs' = [k \in DOMAIN wipJobs \ {wjob[w].sourceFilepath} |-> wipJobs[k]]
    /\ wpc' = [wpc EXCEPT ![w] = "recv"]
    /\ wjob' = [wjob EXCEPT ![w] = NoJob]
    /\ UNCHANGED image
    /\ hist' = [hist EXCEPT !.processed = Returned(@, w, wjob[w])]
    /\ UNCHANGED <<mainVars, gal, thisDirectoryJobs, wipJobMutex, progressBar, sig>>

-----------------------------------------------------------------------------
(* signalHandler *)

\* <-signalChan; wipJobMutex.Lock()
SignalLock ==
    /\ Running
    /\ sig = "waiting"
    /\ wipJobMutex = "free"
    /\ env.signals < env.maxSignals
    /\ env' = [env EXCEPT !.signals = @ + 1]
    /\ wipJobMutex' = "signalHandler"
    /\ sig' = "locked"
    /\ UNCHANGED <<src, now, pc, args, source, gallery, newSourceFiles, dirs, di, fi,
                   chanClosed, runs, gal, thisDirectoryJobs, wpc, wjob, image, wipJobs,
                   progressBar, hist>>

\* the loop over wipJobs
SignalClean ==
    /\ Running
    /\ sig = "locked"
    /\ gal' = RemoveSet(gal, UNION {JobPaths(wipJobs[k]) : k \in DOMAIN wipJobs})
    /\ sig' = "cleaned"
    /\ UNCHANGED <<mainVars, thisDirectoryJobs, wpc, wjob, image, wipJobs, wipJobMutex,
                   progressBar, hist>>

\* exit(0)
SignalExit ==
    /\ Running
    /\ sig = "cleaned"
    /\ Exit("interrupted")
    /\ UNCHANGED <<src, gal, now, runs, env>>

-----------------------------------------------------------------------------

Next ==
    \/ Tick
    \/ \E p \in DOMAIN src : Touch(p)
    \/ \E p \in DOMAIN src : RemoveSource(p)
    \/ \E d, c, n \in BOOLEAN : StartRun(d, c, n)
    \/ Prepare
    \/ EnterDirectory
    \/ Enqueue
    \/ CloseQueue
    \/ WaitWorkers
    \/ MediaUpdated
    \/ UpdateHTML
    \/ CleanUpAndReturn
    \/ \E w \in Workers : Dequeue(w)
    \/ \E w \in Workers : WorkerDone(w)
    \/ \E w \in Workers : Register(w)
    \/ \E w \in Workers : WriteFullsize(w)
    \/ \E w \in Workers : WriteThumbnail(w)
    \/ \E w \in Workers : WriteOverlay(w)
    \/ \E w \in Workers : CreateOriginal(w)
    \/ \E w \in Workers : TransformFails(w)
    \/ \E w \in Workers : cleanWipFiles(w)
    \/ \E w \in Workers : IncrementFailed(w)
    \/ \E w \in Workers : Increment(w)
    \/ \E w \in Workers : Deregister(w)
    \/ SignalLock
    \/ SignalClean
    \/ SignalExit

Spec == Init /\ [][Next]_vars

SpecPool == InitPool /\ [][Next]_vars

\* the whole pool on a queue smaller than the number of pending files of a
\* directory: one run that is not a dry run, with failures and an interrupt
InitLive ==
    InitWith(Sources(SrcCandidates), NewGallery, OnePicture, concurrency,
             {f \in AllFlags : ~f.DryRun /\ ~f.NoVideos}, 1, 2, 1, LiveQueueCap)

\* the scheduler lets every goroutine that can take a step take one, and every
\* call of a transformation returns; arrivals of signals and failures of
\* transformations are up to the environment
Fairness ==
    /\ WF_vars(Prepare) /\ WF_vars(EnterDirectory) /\ WF_vars(Enqueue)
    /\ WF_vars(CloseQueue) /\ WF_vars(WaitWorkers) /\ WF_vars(MediaUpdated)
    /\ WF_vars(UpdateHTML) /\ WF_vars(CleanUpAndReturn)
    /\ \A w \in 1 .. concurrency :
          /\ WF_vars(Dequeue(w)) /\ WF_vars(WorkerDone(w)) /\ WF_vars(Register(w))
          /\ WF_vars(WriteFullsize(w)) /\ WF_vars(WriteThumbnail(w))
          /\ WF_vars(WriteOverlay(w)) /\ WF_vars(CreateOriginal(w))
          /\ WF_vars(cleanWipFiles(w)) /\ WF_vars(IncrementFailed(w))
          /\ WF_vars(Increment(w)) /\ WF_vars(Deregister(w))
    /\ WF_vars(SignalClean) /\ WF_vars(SignalExit)

SpecLive == InitLive /\ [][Next]_vars /\ Fairness

\* candidate files of a source tree under scan: an upper-case extension, a file
\* that is no media, a directory with the name of a reserved directory
ScanCandidates ==
    { <<N("a", "jpg")>>, <<subName, N("c", "MP4")>>, <<subName, N("notes", "txt")>>,
      <<thumbnailDir, N("a", "jpg")>> }

\* the directory sub cannot be read
WithLockedSub(fs) ==
    Put(RemoveAll(fs, <<subName>>), <<subName>>, LockedEntry)

\* the directory sub holds a link, named like an image, to a directory without media
WithLinkInSub(fs) ==
    Put(Put(fs, <<subName>>, DirEntry), <<subName, N("album", "jpg")>>, DirLinkEntry)

\* the only entry of sub is a link to a directory that holds an image
MediaBehindLinkInSub ==
    (<<>> :> DirEntry) @@ (<<subName>> :> DirEntry)
    @@ (<<subName, linkName>> :> DirLinkEntry)
    @@ (<<subName, linkName, N("a", "jpg")>> :> FileEntry(0))

\* the only entry of the root is a link to a directory that holds an image
MediaBehindLinkInRoot ==
    (<<>> :> DirEntry) @@ (<<linkName>> :> DirLinkEntry)
    @@ (<<linkName, N("a", "jpg")>> :> FileEntry(0))

\* the source root itself cannot be read
LockedRoot == (<<>> :> LockedEntry)

ScanSources ==
    Sources(ScanCandidates)
    \cup {WithLockedSub(fs) : fs \in Sources(ScanCandidates)}
    \cup {WithLinkInSub(fs) : fs \in Sources(ScanCandidates)}
    \cup {LockedRoot, MediaBehindLinkInSub, MediaBehindLinkInRoot}

\* source paths that are no directory: nothing there, a file, a path through a file
BadSources == {EmptyFS, (<<>> :> FileEntry(0)), (<<>> :> BlockedEntry)}

\* a gallery whose only entry is the original of a.jpg, a link into a source
\* tree that has been moved away
StaleGallery ==
    (<<>> :> DirEntry) @@ (<<originalDir>> :> DirEntry)
    @@ (<<originalDir, N("a", "jpg")>> :> StaleLinkEntry)

\* gallery paths: a file, nothing there with and without a parent directory,
\* and the gallery with the stale link
OddGalleries ==
    {[gal |-> (<<>> :> FileEntry(0)), parent |-> "dir"]}
    \cup {[gal |-> EmptyFS, parent |-> k] : k \in {"dir", "none", "file"}}
    \cup {[gal |-> StaleGallery, parent |-> "dir"]}

\* one worker over the source trees that exercise the scanner: one run with a
\* failure and an interrupt
\* and, without failures and interrupts, MaxRuns runs that change the gallery;
\* and runs on source and gallery paths the validation has to judge
InitScan ==
    \/ InitWith(ScanSources, NewGallery, OnePicture, 1, AllFlags, 1, 1, 1, QueueCap)
    \/ InitWith(ScanSources, NewGallery, OnePicture, 1, {f \in AllFlags : ~f.DryRun}, MaxRuns, 0, 0,
                QueueCap)
    \/ InitWith(BadSources \cup Sources({<<N("a", "jpg")>>}), OddGalleries, Pictures, 1, AllFlags,
                MaxRuns, 0, 0, QueueCap)

SpecScan == InitScan /\ [][Next]_vars

-----------------------------------------------------------------------------
(* Properties *)

\* the process ends in this step: main returns, or exit() is called
ProcessStops == pc # "idle" /\ pc' = "idle"

\* the three outputs of a job are all there or all missing
AllOrNothing(fs, job) ==
    \/ JobPaths(job) \subseteq DOMAIN fs
    \/ JobPaths(job) \cap DOMAIN fs = {}

\* C1: whenever the process stops (main returns, a fatal exit, or the exit of the
\* interrupt handler while workers are running), the thumbnail, full-size and
\* original of every job of the run either all exist or are all absent.
TriplesAllOrNothingAtStop ==
    [][ProcessStops => \A job \in hist.jobs : AllOrNothing(gal', job)]_vars

\* C2: when a run with cleanup has completed with every job succeeding, the next
\* run over the unchanged source tree (same flags for the scan) finds no pending
\* source file and no stale gallery file, whatever the modification times.
SecondRunFindsNothing ==
    (/\ pc = "compared"
     /\ hist.prev.clean
     /\ hist.change.kind = "none"
     /\ args.NoVideos = hist.prev.noVideos)
    => (newSourceFiles = 0 /\ countChanges(gallery) = 0)

\* the file records of a whole tree
RECURSIVE TreeFiles(_)
TreeFiles(tree) ==
    {tree.files[i] : i \in DOMAIN tree.files}
    \cup UNION {TreeFiles(tree.subdirectories[k]) : k \in DOMAIN tree.subdirectories}

\* the source files the reconciler left marked as not up to date
PendingPaths(tree) == {f.relPath : f \in {g \in TreeFiles(tree) : ~g.exists}}

\* the run follows a change of one media file of a synchronized source tree
AfterChange(kind) ==
    /\ Running
    /\ hist.change.kind = kind
    /\ args.NoVideos \in hist.change.synced
    /\ isMediaFile(Last(hist.change.path), args.NoVideos)

\* C3: from a fully synchronized gallery, after the modification time of one
\* source file was set to a later time, the next run marks exactly that file as
\* pending and, unless it is a dry run, has enqueued a job for exactly that file
\* when updateMediaFiles is over.
TouchedFileIsReprocessed ==
    (AfterChange("touch") /\ hist.change.later)
    => /\ PendingPaths(source) = {hist.change.path}
       /\ (pc \in {"html", "cleanup"} /\ ~args.DryRun)
            => {job.sourceFilepath : job \in hist.jobs} = {hist.change.path}

\* the thumbnail, full-size and original of the source file at path p
ArtifactPaths(p) ==
    JobPaths(MakeJob([relPath |-> Parent(p)], [name |-> Last(p)]))

\* the media files of the source tree, as the scan of the run sees them
MediaFiles == {p \in SourceFiles : isMediaFile(Last(p), args.NoVideos)}

\* C4: from a fully synchronized gallery, after one source file was removed, a
\* run with cleanup counts no pending source file and exactly three stale
\* gallery files, and when it returns the three artifacts of the removed file
\* are gone and every artifact of every remaining source file is still there.
RemovedFileIsCleaned ==
    [][(/\ AfterChange("remove")
        /\ args.CleanUp /\ ~args.DryRun
        /\ pc = "cleanup" /\ pc' = "idle")
       => /\ newSourceFiles = 0
          /\ countChanges(gallery) = 3
          /\ ArtifactPaths(hist.change.path) \cap DOMAIN gal' = {}
          /\ \A q \in MediaFiles : ArtifactPaths(q) \subseteq DOMAIN gal']_vars

\* C5: when a transformation or createOriginal has failed and the worker has
\* handled the failure, none of the three output paths of the job exists, the
\* job is out of the registry, the progress bar has advanced by one, the process
\* is still running and the worker is back at the queue.
FailedJobIsCleaned ==
    [][\A w \in Workers :
          (/\ wpc[w] = "failedIncrement"
           /\ wpc'[w] # wpc[w]
           /\ hist'.status # "interrupted")
          => /\ JobPaths(wjob[w]) \cap DOMAIN gal' = {}
             /\ wjob[w].sourceFilepath \notin DOMAIN wipJobs'
             /\ progressBar' = progressBar + 1
             /\ pc' # "idle"
             /\ wpc'[w] = "recv"]_vars

\* C6: the interrupt handler holds wipJobMutex from its first step on, removes
\* the thumbnail, full-size and original path of every registered job, and the
\* process exits from the handler only after that removal; while the handler
\* holds the mutex the registry does not change.
SignalHandlerCleansThenExits ==
    [][/\ (sig' \in {"locked", "cleaned"} => wipJobMutex' = "signalHandler")
       /\ (sig = "locked" /\ sig' = "cleaned")
            => \A k \in DOMAIN wipJobs : JobPaths(wipJobs[k]) \cap DOMAIN gal' = {}
       /\ (ProcessStops /\ hist'.status = "interrupted") => sig = "cleaned"
       /\ (wipJobMutex = "signalHandler" /\ ~ProcessStops) => wipJobs' = wipJobs]_vars

\* the handler has removed the files of a registered job while another worker
\* waits for the mutex to register its own
HandlerCleanedWhileWorkerWaits ==
    /\ sig = "cleaned"
    /\ wipJobs # NoWip
    /\ \E w \in Workers : wpc[w] = "register"

\* C7: while a dry run executes, no step changes the gallery filesystem, the job
\* queue stays empty, no worker holds a job and nothing is registered.
DryRunChangesNothing ==
    [][/\ args.DryRun => gal' = gal
       /\ args'.DryRun => /\ thisDirectoryJobs' = <<>>
                           /\ \A w \in Workers : wjob'[w] = NoJob
                           /\ wipJobs' = NoWip]_vars

\* a dry run over an existing gallery has gone through the media and HTML
\* stages with pending source files and stale gallery files, and is about to
\* rehearse the cleanup
DryRunRehearsedEverything ==
    /\ pc = "cleanup"
    /\ args.DryRun /\ args.CleanUp
    /\ newSourceFiles > 0
    /\ countChanges(gallery) > 0
    /\ cleanUpPaths(gallery) # {}

\* the gallery entries without a counterpart in the source: a file of a
\* thumbnail, full-size or original directory whose basename no file of the
\* corresponding source directory has, and everything in a mirrored directory
\* the source does not have
OrphanEntries(sfs, gfs) ==
    {p \in DOMAIN gfs :
        \/ /\ Len(p) >= 2
           /\ reservedDirectory(p[Len(p) - 1])
           /\ gfs[p].t # "dir"
           /\ ~\E q \in DOMAIN sfs :
                  /\ sfs[q].t = "file"
                  /\ Parent(q) = SubSeq(p, 1, Len(p) - 2)
                  /\ stripExtension(Last(q)) = stripExtension(Last(p))
        \/ \E k \in 1 .. Len(p) :
              /\ ~reservedDirectory(p[k])
              /\ gfs[SubSeq(p, 1, k)].t = "dir"
              /\ SubSeq(p, 1, k) \notin DOMAIN sfs}

\* C8: in a run without the cleanup flag no step removes a gallery entry that has
\* no counterpart in the source, and every such entry that was there when the
\* run started is there when the process stops.
NoCleanupKeepsOrphans ==
    [][(Running /\ ~args.CleanUp)
       => /\ OrphanEntries(src, gal) \subseteq DOMAIN gal'
          /\ ProcessStops => OrphanEntries(src, hist.gal0) \subseteq DOMAIN gal']_vars

\* a run without cleanup that found orphans in the gallery, had a job fail and
\* be wiped by cleanWipFiles, and is about to return
RunWithOrphansAndFailure ==
    /\ pc = "cleanup"
    /\ ~args.CleanUp /\ ~args.DryRun
    /\ OrphanEntries(src, hist.gal0) # {}
    /\ hist.failed # {}

\* the media files with the basename in a reserved subdirectory of a gallery directory
Matches(fs, galleryDirectory, reserved, basename, noVideos) ==
    {p \in DOMAIN fs :
        /\ Len(p) >= 2
        /\ Parent(p) = Append(galleryDirectory, reserved)
        /\ fs[p].t # "dir"
        /\ isMediaFile(Last(p), noVideos)
        /\ stripExtension(Last(p)) = basename}

\* a thumbnail, a full-size and an original with the basename of the source file
\* exist, and the thumbnail is not older than the source file
NotOlderTriple(sfs, gfs, p, noVideos) ==
    LET base == stripExtension(Last(p))
    IN  /\ \E t \in Matches(gfs, Parent(p), thumbnailDir, base, noVideos) :
               gfs[t].m >= sfs[p].m
        /\ Matches(gfs, Parent(p), fullsizeDir, base, noVideos) # {}
        /\ Matches(gfs, Parent(p), originalDir, base, noVideos) # {}

\* C9: after reconciliation a source file is marked up to date exactly when a
\* thumbnail, a full-size and an original with its basename exist in the
\* corresponding gallery directory and the thumbnail's modification time is not
\* earlier than the source file's (equal times count as up to date).
UpToDateIffNotOlderTriple ==
    pc = "compared"
    => \A p \in MediaFiles :
          (p \notin PendingPaths(source)) <=> NotOlderTriple(src, gal, p, args.NoVideos)

\* the scanned files of the reserved subdirectories that share the basename of a
\* scanned file of the corresponding source directory
LiveMatches(sfs, gfs, noVideos) ==
    {p \in DOMAIN gfs :
        /\ Len(p) >= 2
        /\ reservedDirectory(p[Len(p) - 1])
        /\ gfs[p].t # "dir"
        /\ isMediaFile(Last(p), noVideos)
        /\ \E q \in DOMAIN sfs :
              /\ sfs[q].t = "file"
              /\ isMediaFile(Last(q), noVideos)
              /\ Parent(q) = SubSeq(p, 1, Len(p) - 2)
              /\ stripExtension(Last(q)) = stripExtension(Last(p))}

TreeDirs(tree) ==
    LET ds == Preorder(tree) IN {ds[i] : i \in 2 .. Len(ds)}

\* the unmarked files of a reconciled gallery tree that are not asset files
StaleFiles(tree) ==
    {f.relPath : f \in {g \in TreeFiles(tree) : ~g.exists /\ ~reservedFile(g.name)}}

\* the unmarked directories of a reconciled gallery tree that are not reserved
StaleDirs(tree) ==
    {d.relPath : d \in {e \in TreeDirs(tree) : ~e.exists /\ ~reservedDirectory(e.name)}}

\* a path lies in the subtree of one of the directories
Under(ds, p) == \E d \in ds : IsPrefix(d, p)

\* main runs the cleanup, not as a rehearsal, and returns
CleanUpStep ==
    /\ pc = "cleanup" /\ pc' = "idle" /\ hist'.status = "done"
    /\ args.CleanUp /\ ~args.DryRun

\* C11: a cleanup that is not a dry run removes from the gallery exactly the
\* unmarked files of the reconciled gallery tree whose name is not an asset
\* file name and the whole subtrees of its unmarked directories whose name is
\* not reserved; outside those subtrees every reserved directory, every file
\* with an asset file name and every marked file or directory stays, unchanged.
CleanUpDeletesExactlyTheStale ==
    [][CleanUpStep
       => LET deleted == {p \in DOMAIN gal :
                             p \in StaleFiles(gallery) \/ Under(StaleDirs(gallery), p)}
          IN  /\ DOMAIN gal' = DOMAIN gal \ deleted
              /\ \A p \in DOMAIN gal' : gal'[p] = gal[p]
              /\ \A p \in DOMAIN gal :
                    (/\ ~Under(StaleDirs(gallery), p)
                     /\ \/ p # <<>> /\ reservedDirectory(Last(p)) /\ gal[p].t = "dir"
                        \/ p # <<>> /\ reservedFile(Last(p))
                        \/ \E f \in TreeFiles(gallery) : f.relPath = p /\ f.exists
                        \/ \E d \in TreeDirs(gallery) : d.relPath = p /\ d.exists)
                    => p \in DOMAIN gal']_vars

\* a cleanup is about to delete a stale file and the subtree of a stale
\* directory, next to an unmarked asset file and a marked file that stay
CleanupOfFilesAndSubtrees ==
    /\ pc = "cleanup"
    /\ args.CleanUp /\ ~args.DryRun
    /\ StaleFiles(gallery) \cap DOMAIN gal # {}
    /\ \E d \in StaleDirs(gallery) : \E p \in DOMAIN gal : IsPrefix(d, p) /\ p # d
    /\ \E f \in TreeFiles(gallery) : ~f.exists /\ reservedFile(f.name)
    /\ \E f \in TreeFiles(gallery) : f.exists

\* the jobs createMedia has to send for a directory of the source tree
DirectoryJobs(d) ==
    {MakeJob(d, d.files[i]) : i \in {j \in DOMAIN d.files : ~d.files[j].exists}}

\* C12: a job is sent only on the open queue; the queue is closed only when the
\* loop over the files of the directory is over and every job of the directory
\* has been sent; createMedia returns only when every worker of the pool has
\* terminated, holding no job, with the queue drained; and while main is outside
\* createMedia no worker exists.
QueueClosedLastAndPoolJoined ==
    [][/\ Len(thisDirectoryJobs') > Len(thisDirectoryJobs)
            => ~chanClosed /\ ~chanClosed'
       /\ (~chanClosed /\ chanClosed')
            => /\ fi > Len(dirs[di].files)
               /\ ~args.DryRun => DirectoryJobs(dirs[di]) \subseteq hist.jobs
       /\ (pc = "wait" /\ pc' = "updateMedia")
            => /\ \A w \in Workers : wpc[w] = "done" /\ wjob[w] = NoJob
               /\ thisDirectoryJobs = <<>>
               /\ chanClosed
       /\ pc' \in {"updateMedia", "html", "cleanup"}
            => \A w \in Workers : wpc'[w] = "none" /\ wjob'[w] = NoJob]_vars

\* main waits for the pool on the closed queue: one worker has terminated,
\* another is still transforming, and a job is still in the queue
MainWaitsForRunningWorker ==
    /\ pc = "wait" /\ chanClosed
    /\ thisDirectoryJobs # <<>>
    /\ \E w \in Workers : wpc[w] \in {"fullsize", "thumbnail", "overlay", "original"}

\* the number of returned calls transformFile(job), over all workers
TimesProcessed(job) ==
    Cardinality({c \in DOMAIN hist.processed : c[2] = job.sourceFilepath /\ hist.processed[c] = 1})
    + 2 * Cardinality({c \in DOMAIN hist.processed :
                          c[2] = job.sourceFilepath /\ hist.processed[c] > 1})

\* C13: under fair scheduling a createMedia that has started its loop returns,
\* unless an interrupt ends the process, whether the directory has no pending file, fewer
\* than the workers or more than the queue holds; and when it returns the queue
\* is empty and every job sent so far has been processed exactly once, by one
\* worker, whether it failed or not.
CreateMediaTerminatesAllJobsOnce ==
    /\ (pc = "enqueue")
         ~> (pc = "updateMedia" \/ (pc = "idle" /\ hist.status = "interrupted"))
    /\ [][(pc = "wait" /\ pc' = "updateMedia")
          => /\ thisDirectoryJobs = <<>>
             /\ DirectoryJobs(dirs[di]) \subseteq hist.jobs
             /\ \A job \in hist.jobs : TimesProcessed(job) = 1
             /\ {c[2] : c \in DOMAIN hist.processed}
                    = {job.sourceFilepath : job \in hist.jobs}]_vars

\* createMedia is about to return from a directory with more pending files than
\* the queue holds, after one of its jobs has failed
ReturnAfterFullQueueAndFailure ==
    /\ pc = "wait"
    /\ \A w \in Workers : wpc[w] = "done"
    /\ Cardinality(DirectoryJobs(dirs[di])) > env.queueCap
    /\ hist.failed # {}

\* C14: when the gallery root does not exist, its scan is the placeholder node
\* without files and subdirectories, and the reconciliation leaves every media
\* file of the source pending, counts as many pending source files as the
\* source tree has media files, and counts no stale gallery file.
MissingGalleryLeavesAllPending ==
    (pc = "compared" /\ ~exists(gal, <<>>))
    => /\ createDirectoryTree(gal, <<>>, args.NoVideos) = NoTree
       /\ PendingPaths(source) = MediaFiles
       /\ newSourceFiles = Cardinality(MediaFiles)
       /\ countChanges(gallery) = 0

\* a process starts in this step
ProcessStarts == runs' = runs + 1

\* C15: a run over a source tree with a top-level entry named _thumbnail,
\* _fullsize or _original ends with a fatal error in its first step, before a
\* tree is scanned or compared and with the gallery untouched.
ReservedTopLevelNameIsFatal ==
    [][(ProcessStarts /\ \E p \in DOMAIN src : Len(p) = 1 /\ reservedDirectory(p[1]))
       => /\ pc' = "idle" /\ hist'.status = "fatal"
          /\ gal' = gal]_vars

\* the extension of the full-size rendition of a source file
FullsizeExtension(n) == IF isImageFile(n) THEN imageExtension ELSE videoExtension

\* a job has succeeded: transformFile takes it out of the registry and returns
JobSucceeds(w) == wpc[w] = "deregister" /\ wpc'[w] = "recv"

\* C16 as stated: a successful job for the source file d/n.ext leaves the
\* thumbnail at _thumbnail/d/n.jpg, the full-size at _fullsize/d/n.jpg (n.mp4
\* for a video) and the original at _original/d/n.ext under the gallery root,
\* and directories with a reserved name exist only directly under the root.
ArtifactsUnderRootReservedDirs ==
    [][\A w \in Workers :
          JobSucceeds(w)
          => LET p == wjob[w].sourceFilepath
                 d == Parent(p)
                 n == Last(p)
             IN  /\ <<thumbnailDir>> \o d \o <<N(stripExtension(n), imageExtension)>>
                        \in DOMAIN gal'
                 /\ <<fullsizeDir>> \o d \o <<N(stripExtension(n), FullsizeExtension(n))>>
                        \in DOMAIN gal'
                 /\ <<originalDir>> \o d \o <<n>> \in DOMAIN gal'
                 /\ \A q \in DOMAIN gal' :
                       (q # <<>> /\ reservedDirectory(Last(q))) => Len(q) = 1]_vars

\* C16, amended: a successful job for the source file d/n.ext leaves the
\* thumbnail at d/_thumbnail/n.jpg, the full-size at d/_fullsize/n.jpg (n.mp4
\* for a video) and, as a link, the original at d/_original/n.ext under the
\* gallery root; the directories with a reserved name lie directly in the
\* gallery directories that mirror a source directory, the root included.
ArtifactsInReservedDirsOfMirror ==
    [][\A w \in Workers :
          JobSucceeds(w)
          => LET p == wjob[w].sourceFilepath
                 d == Parent(p)
                 n == Last(p)
                 thumbnail == d \o <<thumbnailDir, N(stripExtension(n), imageExtension)>>
                 fullsize == d \o <<fullsizeDir, N(stripExtension(n), FullsizeExtension(n))>>
                 original == d \o <<originalDir, n>>
             IN  /\ {thumbnail, fullsize, original} \subseteq DOMAIN gal'
                 /\ gal'[thumbnail].t = "file" /\ gal'[fullsize].t = "file"
                 /\ gal'[original].t = "link"
                 /\ \A q \in DOMAIN gal' :
                       (q # <<>> /\ reservedDirectory(Last(q)))
                       => /\ gal'[q].t = "dir"
                          /\ IsDir(src, Parent(q))
                          /\ IsDir(gal', Parent(q))]_vars

\* the job for a file in a subdirectory of the source has succeeded and is
\* about to leave the registry, in a gallery that holds a video of the root
JobOfSubdirectoryDone ==
    /\ \E w \in Workers : wpc[w] = "deregister" /\ Len(wjob[w].sourceFilepath) = 2
    /\ <<fullsizeDir, N("a", videoExtension)>> \in DOMAIN gal

\* C17: every directory node of the scanned source tree and of the scanned
\* gallery tree, the roots apart, has a media file (as the scan of the run
\* classifies names) in its subtree.
ScannedDirectoriesHoldMedia ==
    Running
    => \A d \in TreeDirs(source) \cup TreeDirs(gallery) :
          \E f \in TreeFiles(d) : isMediaFile(f.name, args.NoVideos)

\* C18: a run over a source tree with a directory whose contents cannot be
\* read ends with a fatal error in the scan; no tree that lacks the directory
\* is handed to the reconciler.
UnreadableDirectoryIsFatal ==
    [][(ProcessStarts /\ \E p \in DOMAIN src : ReadDirFails(src, p) /\ IsDir(src, p))
       => pc' = "idle" /\ hist'.status = "fatal"]_vars

\* the unmarked files of a whole tree whose name is not an asset file name
Changes(tree) == {f \in TreeFiles(tree) : ~f.exists /\ ~reservedFile(f.name)}

\* C19: countChanges of the reconciled source tree and of the reconciled
\* gallery tree is the number of files, at every depth, that are unmarked and
\* do not have the name of an asset file; main sizes its work with the count of
\* the source tree, and counting leaves the trees as the reconciler made them.
CountChangesCountsWholeTree ==
    Running
    => /\ countChanges(source) = Cardinality(Changes(source))
       /\ countChanges(gallery) = Cardinality(Changes(gallery))
       /\ newSourceFiles = Cardinality(Changes(source))
       /\ pc = "compared"
            => /\ source = Reconcile(src, gal, args.NoVideos).source
               /\ gallery = Reconcile(src, gal, args.NoVideos).gallery

\* counted and uncounted files at several depths: a pending source file in a
\* subdirectory, a stale gallery file in a reserved directory, and an unmarked
\* gallery file with the name of an asset file
ChangesAtEveryDepth ==
    /\ pc = "compared"
    /\ \E f \in Changes(source) : Len(f.relPath) = 2
    /\ \E f \in Changes(gallery) : Len(f.relPath) >= 2
    /\ \E f \in TreeFiles(gallery) : ~f.exists /\ reservedFile(f.name)

ImageExtensions == {"jpg", "jpeg", "heic", "png", "gif", "tif", "tiff", "cr2", "raw", "arw"}
VideoExtensions == {"mp4", "mov", "3gp", "avi", "mts", "m4v", "mpg"}

\* file names with every media extension, in lower and in mixed case, and
\* with extensions that are no media
SomeNames ==
    {N("x", e) : e \in ImageExtensions \cup VideoExtensions
                        \cup {"JPG", "Jpeg", "PNG", "MP4", "MoV", "TXT",
                              "txt", "html", "js", "json", "jpg~", "mp", ""}}
    \cup {NameOrder[i] : i \in DOMAIN NameOrder}

\* C20: a name is classified as media exactly when its extension, in lower
\* case, is an image extension, or is a video extension while videos are not
\* ignored; no extension is both; and while videos are ignored no video name is
\* media for isMediaFile, no directory holds media for dirHasMediafiles unless
\* an image name lies below it, and no scanned tree has a video file.
MediaIffImageOrWantedVideo ==
    /\ \A n \in SomeNames : \A nv \in BOOLEAN :
          /\ isMediaFile(n, nv)
               <=> \/ ToLower(Ext(n)) \in ImageExtensions
                   \/ ~nv /\ ToLower(Ext(n)) \in VideoExtensions
          /\ isImageFile(n) <=> ToLower(Ext(n)) \in ImageExtensions
          /\ isVideoFile(n) <=> ToLower(Ext(n)) \in VideoExtensions
          /\ ~(isImageFile(n) /\ isVideoFile(n))
          /\ isVideoFile(n) => ~isMediaFile(n, TRUE)
    /\ ImageExtensions \cap VideoExtensions = {}
    /\ \A p \in DOMAIN src :
          dirHasMediafiles(src, p, TRUE)
          => \E q \in DOMAIN src : IsPrefix(p, q) /\ q # p /\ isImageFile(Last(q))
    /\ (Running /\ args.NoVideos)
          => \A f \in TreeFiles(source) \cup TreeFiles(gallery) : ~isVideoFile(f.name)

\* a run that ignores videos has scanned a source tree with an image and, in a
\* directory of its own, a video whose extension is in upper case: the
\* directory is not in the tree
VideoDirectoryIgnored ==
    /\ pc = "compared" /\ args.NoVideos
    /\ \E p \in DOMAIN src : Len(p) = 2 /\ isVideoFile(Last(p)) /\ Ext(Last(p)) # ToLower(Ext(Last(p)))
    /\ TreeFiles(source) # {}
    /\ TreeDirs(source) = {}

\* what the command line names is a directory, possibly through a link
IsADirectory(kind) == kind \in {"dir", "locked", "dirlink"}

\* C21: validateSourceAndGallery calls the fatal exit exactly when the source
\* path is not a directory, or the gallery path is not a directory and its
\* parent is not a directory either; a missing gallery whose parent directory
\* exists is accepted
ValidationExitsExactlyOnBadPaths ==
    [][ProcessStarts =>
         /\ hist'.status = "invalid"
              <=> \/ ~IsADirectory(RootKind(src))
                  \/ /\ ~IsADirectory(GalleryKind(gal, env.galleryParent))
                     /\ ~IsADirectory(env.galleryParent)
         /\ (/\ IsADirectory(RootKind(src))
             /\ RootKind(gal) = "none"
             /\ env.galleryParent = "dir") => hist'.status # "invalid"]_vars

\* the paths of the gallery inside a reserved directory
OutputPaths(fs) ==
    {p \in DOMAIN fs : Len(p) >= 2 /\ p[Len(p) - 1] \in {thumbnailDir, fullsizeDir, originalDir}}

\* the output paths whose entry differs before and after a step, or since a state
ChangedOutputs(before, after) ==
    {p \in OutputPaths(before) \cup OutputPaths(after) :
        \/ p \notin DOMAIN before
        \/ p \notin DOMAIN after
        \/ before[p] # after[p]}

\* the source paths whose transformFile call has returned without a failure
CompletedJobs ==
    {c[2] : c \in DOMAIN hist.processed} \ hist.failed

\* the job is still in the channel
Queued(sourceFilepath) ==
    \E i \in DOMAIN thisDirectoryJobs : thisDirectoryJobs[i].sourceFilepath = sourceFilepath

\* C22: every step of a run that writes or deletes an output path, other than
\* the final clean-up, acts on a path of a job that is in the WIP registry
\* before and, for a write, after the step; hence every output written during
\* the run belongs to a registered or successfully completed job, and a job
\* still in the queue is neither registered nor completed nor held by a worker
OutputsBelongToRegisteredJobs ==
    /\ [][(Running /\ pc # "cleanup") =>
            \A p \in ChangedOutputs(gal, gal') :
                \E k \in DOMAIN wipJobs :
                    /\ p \in JobPaths(wipJobs[k])
                    /\ ~Queued(k)
                    /\ p \in DOMAIN gal' => k \in DOMAIN wipJobs']_vars
    /\ [](Running =>
            /\ \A p \in ChangedOutputs(hist.gal0, gal) \cap DOMAIN gal :
                  \E k \in DOMAIN wipJobs \cup CompletedJobs : p \in ArtifactPaths(k)
            /\ \A i \in DOMAIN thisDirectoryJobs :
                  LET k == thisDirectoryJobs[i].sourceFilepath
                  IN  /\ k \notin DOMAIN wipJobs \cup CompletedJobs
                      /\ \A w \in DOMAIN wjob : wjob[w].sourceFilepath # k)

\* a worker has written the full-size file of its registered job while another
\* job waits in the queue
WritingWhileAnotherJobIsQueued ==
    \E w \in DOMAIN wpc :
        /\ wpc[w] = "thumbnail"
        /\ wjob[w].sourceFilepath \in DOMAIN wipJobs
        /\ wjob[w].fullsizeFilepath \in DOMAIN gal
        /\ thisDirectoryJobs # <<>>

\* the worker is inside transformImage, transformVideo or createOriginal
Transforming(w) == wpc[w] \in {"fullsize", "thumbnail", "overlay", "original"}

\* the worker is about to lock wipJobMutex
AtLock(w) == wpc[w] \in {"register", "failed", "deregister"}

\* C23: the WIP registry is modified only by a step that takes the free mutex
\* and releases it, and read by the interrupt handler only while the handler
\* holds it; no worker holds the mutex while it transforms, so a worker that is
\* registering, cleaning or deregistering can go on whenever the interrupt
\* handler does not hold the mutex, whatever the other workers do
RegistryOnlyUnderMutex ==
    /\ [][(Running /\ Running') =>
            /\ wipJobs' # wipJobs => (wipJobMutex = "free" /\ wipJobMutex' = "free")
            /\ (sig = "locked" /\ sig' = "cleaned") => wipJobMutex = "signalHandler"]_vars
    /\ [](Running =>
            /\ wipJobMutex \in {"free", "signalHandler"}
            /\ \A w \in DOMAIN wpc :
                  (AtLock(w) /\ wipJobMutex # "signalHandler")
                  => ENABLED (Register(w) \/ cleanWipFiles(w) \/ Deregister(w)))

\* one worker is about to lock the mutex while another one transforms a
\* registered job
LockingBesideATransformation ==
    \E w, v \in DOMAIN wpc :
        /\ w # v
        /\ AtLock(w)
        /\ Transforming(v)
        /\ wjob[v].sourceFilepath \in DOMAIN wipJobs

\* C24: in every successful job the thumbnail is the last artifact written: at
\* the final write of the thumbnail the full-size file is in place, and the
\* original is in place and not written afterwards
ThumbnailIsWrittenLast ==
    [][\A w \in DOMAIN wpc :
          /\ (wpc[w] \in {"thumbnail", "overlay"} /\ wpc'[w] = "original")
                => wjob[w].fullsizeFilepath \in DOMAIN gal
          /\ (wpc[w] = "original" /\ wpc'[w] = "increment")
                => /\ wjob[w].originalFilepath \in DOMAIN gal
                   /\ gal' = gal]_vars

\* C25: any two distinct jobs created in one run have pairwise disjoint output
\* paths, so no step of a worker changes an output path of another job of the run
JobOutputsAreDisjoint ==
    /\ [](\A j1, j2 \in hist.jobs : j1 # j2 => JobPaths(j1) \cap JobPaths(j2) = {})
    /\ [][Running =>
            \A w \in DOMAIN wpc : wpc'[w] # wpc[w] =>
                \A p \in ChangedOutputs(gal, gal') :
                    \A j \in hist.jobs : p \in JobPaths(j) => j = wjob[w]]_vars

\* the directories of the gallery tree that mirror the source directory d
GalleryCounterparts(d) ==
    LET gs == Preorder(gallery)
    IN  {gs[i] : i \in {j \in DOMAIN gs : gallery.exists /\ gs[j].relPath = d.relPath}}

\* the conditions under which a directory counts as changed: a pending source
\* file, a source subdirectory the gallery lacks, or, with the clean-up, a
\* stale file or subdirectory in the gallery counterpart
NotUpToDate(d, cleanUpFlag) ==
    \/ \E i \in DOMAIN d.files : ~d.files[i].exists
    \/ \E k \in DOMAIN d.subdirectories : ~d.subdirectories[k].exists
    \/ /\ cleanUpFlag
       /\ \E g \in GalleryCounterparts(d) :
             \/ \E i \in DOMAIN g.files :
                   ~reservedFile(g.files[i].name) /\ ~g.files[i].exists
             \/ \E k \in DOMAIN g.subdirectories :
                   /\ ~reservedDirectory(g.subdirectories[k].name)
                   /\ ~g.subdirectories[k].exists

\* C26: wherever updateMediaFiles or updateHTMLFiles asks, hasDirectoryChanged
\* reports a directory as changed exactly when it has a pending source file, a
\* source subdirectory that is not up to date or, only with the clean-up, a
\* not-up-to-date file or subdirectory in its gallery counterpart
ChangedExactlyWhenNotUpToDate ==
    /\ (pc = "updateMedia" /\ di <= Len(dirs))
          => (hasDirectoryChanged(dirs[di], gallery, args.CleanUp, gal)
                <=> NotUpToDate(dirs[di], args.CleanUp))
    /\ pc = "html"
          => \A i \in DOMAIN Preorder(source) :
                hasDirectoryChanged(Preorder(source)[i], gallery, args.CleanUp, gal)
                   <=> NotUpToDate(Preorder(source)[i], args.CleanUp)

\* createOriginal of worker w returns, without an error from outside
CreateOriginalReturns(w) ==
    /\ wpc[w] = "original"
    /\ wpc'[w] \in {"increment", "failed"}
    /\ env' = env

\* C27: createOriginal succeeds and leaves the destination as a link to the
\* source whatever was at the destination before: nothing, a link to an
\* existing file, or a stale link whose target no longer exists
CreateOriginalReplacesAnyLink ==
    [][\A w \in DOMAIN wpc :
          CreateOriginalReturns(w)
          => /\ wpc'[w] = "increment"
             /\ wjob[w].originalFilepath \in DOMAIN gal'
             /\ gal'[wjob[w].originalFilepath] = LinkEntry(now)]_vars

\* a media file lies somewhere below the path, links to directories followed
HoldsMedia(fs, p, noVideos) ==
    \E q \in DOMAIN fs :
        /\ q # p /\ IsPrefix(p, q)
        /\ fs[q].t = "file"
        /\ isMediaFile(Last(q), noVideos)

\* a link to a directory lies at the path or below it
ReachesLink(fs, p) ==
    \E q \in DOMAIN fs : IsPrefix(p, q) /\ fs[q].t = "dirlink"

\* C28: a link that resolves to a directory is treated like a directory at
\* every depth: the link, and every readable directory above it, is a node of
\* the scanned source tree exactly when media lies below it
LinksToDirectoriesAreDirectories ==
    Running
    => \A p \in DOMAIN src \ {<<>>} :
          (src[p].t \in {"dir", "dirlink"} /\ ReachesLink(src, p))
          => ((\E d \in TreeDirs(source) : d.relPath = p)
                <=> HoldsMedia(src, p, args.NoVideos))

\* the fraction x divided by the integer k, in lowest terms
Ratio(x, k) == Frac(x[1], x[2] * k)

\* worker w has resized the picture and written the full-size image
FullsizeImageWritten(w) ==
    /\ wpc[w] = "fullsize"
    /\ wpc'[w] = "thumbnail"
    /\ isImageFile(wjob[w].filename)

\* C29: for every positive source width and height the one scale factor
\* transformImage chooses is applied to both dimensions, so the aspect ratio
\* is kept, and the scaled width is at most fullsizeMaxWidth and the scaled
\* height at most fullsizeMaxHeight
FullsizeScaleKeepsBothBounds ==
    [][\A w \in DOMAIN wpc :
          FullsizeImageWritten(w)
          => LET scaled == image'[w]
             IN  /\ scaled.width[1] > 0 /\ scaled.height[1] > 0
                 /\ scaled.width[1] <= fullsizeMaxWidth * scaled.width[2]
                 /\ scaled.height[1] <= fullsizeMaxHeight * scaled.height[2]
                 /\ Ratio(scaled.width, env.image.width)
                      = Ratio(scaled.height, env.image.height)]_vars

\* a portrait picture has been scaled down to the maximum height
PortraitScaledToMaxHeight ==
    \E w \in DOMAIN wpc :
        /\ wpc[w] = "thumbnail"
        /\ env.image.height > env.image.width
        /\ env.image.width > 1
        /\ image[w].height = <<fullsizeMaxHeight, 1>>
        /\ image[w].width[1] < fullsizeMaxWidth * image[w].width[2]

\* worker w is inside transformFile
InTransformFile(w) == wpc[w] \notin {"none", "recv", "done"}

\* C30: at any time the WIP registry holds at most config.concurrency jobs,
\* every one of them the current job of a worker inside transformFile, and no
\* two workers are processing the same source path
RegistryHoldsOneJobPerWorker ==
    Running
    => /\ Cardinality(DOMAIN wipJobs) <= concurrency
       /\ \A k \in DOMAIN wipJobs :
             \E w \in DOMAIN wpc : InTransformFile(w) /\ wjob[w] = wipJobs[k]
                                   /\ wjob[w].sourceFilepath = k
       /\ \A w, v \in DOMAIN wpc :
             (w # v /\ InTransformFile(w) /\ InTransformFile(v))
             => wjob[w].sourceFilepath # wjob[v].sourceFilepath

\* every worker of the pool has its job in the registry
RegistryFull ==
    /\ Cardinality(DOMAIN wipJobs) = concurrency
    /\ \A w \in DOMAIN wpc : InTransformFile(w)

\* createMedia is executing for the directory dirs[di]
InCreateMedia == pc \in {"enqueue", "wait"}

\* C31: whenever createMedia is not executing the WIP registry is empty, and
\* every registered job belongs to the one directory createMedia is processing,
\* so jobs of two directories are never in flight together
RegistryOfCurrentDirectoryOnly ==
    /\ (Running /\ ~InCreateMedia) => wipJobs = NoWip
    /\ (Running /\ InCreateMedia)
          => \A k \in DOMAIN wipJobs : Parent(k) = dirs[di].relPath

\* a job of the second directory is registered after a job of the first
\* directory has been processed
JobOfSecondDirectoryRegistered ==
    /\ InCreateMedia
    /\ di > 1
    /\ wipJobs # NoWip
    /\ \E c \in DOMAIN hist.processed : Parent(c[2]) # dirs[di].relPath

\* C32: over a complete non-dry run exactly one job is enqueued for each source
\* file that is pending after the reconciliation, and the number of jobs is
\* countChanges(source), the total of the progress indicator; no pending source
\* file is skipped, whatever its name
OneJobForEveryPendingFile ==
    (pc \in {"html", "cleanup"} /\ ~args.DryRun)
    => /\ {job.sourceFilepath : job \in hist.jobs} = PendingPaths(source)
       /\ Cardinality(hist.jobs) = newSourceFiles

\* the calls of transformFile that have returned
ReturnedCalls == DOMAIN hist.processed

\* C33: in a non-dry run the progress indicator is advanced exactly once for
\* each dequeued job, on success and on every failure path alike: it counts the
\* calls of transformFile that have returned or are past their increment, and
\* when createMedia has returned for every directory it equals the number of
\* jobs enqueued
OneIncrementPerJob ==
    Running
    => /\ \A c \in ReturnedCalls : hist.processed[c] = 1
       /\ progressBar = Cardinality(ReturnedCalls)
                          + Cardinality({w \in DOMAIN wpc : wpc[w] = "deregister"})
       /\ (pc \in {"html", "cleanup"} /\ ~args.DryRun)
             => progressBar = Cardinality(hist.jobs)

\* the media of a run with a failed job and a successful one are done
RunWithFailureAndSuccessCounted ==
    /\ pc = "html"
    /\ hist.failed # {}
    /\ Cardinality(hist.jobs) > Cardinality(hist.failed)
    /\ progressBar = Cardinality(hist.jobs)

\* C34: the clean-up removes artifacts only as whole triples: a thumbnail,
\* full-size file and original that were all present before the pass are all
\* present or all gone after it, with or without the ignore-videos flag
CleanUpRemovesWholeTriples ==
    [][(pc = "cleanup" /\ pc' = "idle")
       => \A p \in SrcCandidates \cup ClashCandidates :
             ArtifactPaths(p) \subseteq DOMAIN gal
             => \/ ArtifactPaths(p) \subseteq DOMAIN gal'
                \/ ArtifactPaths(p) \cap DOMAIN gal' = {}]_vars

\* the names of the files copyRootAssets writes into the gallery root
CopiedAssets == {p[1] : p \in DOMAIN copyRootAssets(EmptyFS, FALSE, 0)}

\* the copied assets the scanner classifies as media
MediaAssets(noVideos) == {n \in CopiedAssets : isMediaFile(n, noVideos)}

\* a tree without the files of its top directory that bear one of the names
WithoutFiles(tree, names) ==
    [tree EXCEPT !.files = SelectSeq(@, LAMBDA f : f.name \notin names)]

UnfinishedJobsArePendingAgain ==
    pc = "compared"
    => \A p \in (hist.prev.failed \cup hist.prev.registered) \cap MediaFiles :
          p \in PendingPaths(source)

\* C37: in a run that is not a dry run every directory that a step creates in
\* the gallery lies under a directory: the gallery root is there before the
\* reserved and the mirrored subdirectories, and a mirrored subdirectory before
\* its reserved subdirectories and its children; no creation of updateMediaFiles
\* or createMedia fails, so the run never stops there with exit(1)
DirectoriesCreatedUnderTheirParents ==
    [][/\ \A p \in DOMAIN gal' \ DOMAIN gal :
             (gal'[p].t = "dir" /\ p # <<>>)
             => /\ IsDir(gal', Parent(p))
                /\ p # Append(<<>>, Last(p)) => \/ IsDir(gal, Parent(p))
                                                \/ reservedDirectory(Last(p))
       /\ (pc = "updateMedia" /\ ProcessStops) => hist'.status # "fatal"]_vars

\* a run that found no gallery has created the reserved subdirectories of a
\* mirrored subdirectory
ReservedDirectoriesOfNewSubdirectory ==
    /\ Running
    /\ ~args.DryRun
    /\ ~exists(hist.gal0, <<>>)
    /\ \A n \in {getGalleryDirectoryNames(<<subName>>).thumbnail,
                 getGalleryDirectoryNames(<<subName>>).fullsize,
                 getGalleryDirectoryNames(<<subName>>).original} : IsDir(gal, n)

\* C38: the clean-up at the end of a run, which works on the gallery tree
\* scanned before the jobs ran, deletes no artifact of a source file whose
\* job the run completed
CleanUpSparesArtifactsOfTheRun ==
    [][(pc = "cleanup" /\ ProcessStops)
         => \A s \in CompletedJobs :
               \A p \in ArtifactPaths(s) \cap DOMAIN gal : p \in DOMAIN gal']_vars

====
